---------------------------- MODULE Spec2Model ----------------------------
(***************************************************************************)
(* Air quality versus age demographics: the PurpleAir pipeline             *)
(* (PurpleAirDataAnalysis/main.py, purpleair_analysis.py), the EPA         *)
(* pipeline (EPADataAnalysis/main.py) and the EPA fetcher                  *)
(* (EPADataAnalysis/get_epa_data.py), as sequential state machines.        *)
(*                                                                         *)
(* Numbers.  Raw sensor readings are integers in tenths of a ug/m3, a      *)
(* column mean is held in thousandths and a corrected PM2.5 value in       *)
(* millionths, so that 0.778 * mean + 2.65 is exact:                       *)
(*     corrected_micro = 778 * mean_milli + 2650000.                       *)
(* A value that may be missing is a pair <<"num", n>> or <<"nan", 0>>.     *)
(* Text that the code parses (file names) is a sequence of one-character   *)
(* strings.                                                                *)
(***************************************************************************)
EXTENDS Integers, Sequences, FiniteSets, TLC

VARIABLES
    script,          \* which script runs: "main", "analysis", "epa" or "fetch"
    pc,              \* position in main()
    trace,           \* the stages main() has called, in call order
    console,         \* the notable messages printed so far
    outputs,         \* the output files written so far
    shp,             \* input: the tract shapefile on disk
    acs,             \* input: the ACS demographic CSV on disk
    gdf,             \* load_and_filter_shapefile's result
    census_df,       \* process_census_data's result
    merged_gdf,      \* merge_geo_and_census's result
    area_95th,       \* merge_geo_and_census's local threshold (times 20)
    sensor_csv,      \* input: the rows of master_sensor_list.csv
    sensor_lookup,   \* load_sensor_locations's result
    purpleair_dir,   \* input: the *.csv files of the directory, glob order
    csv_files,       \* process_purpleair_data: glob's result
    total_files,     \* process_purpleair_data: len(csv_files)
    date_range_info, \* process_purpleair_data: the date range dict
    idx,             \* process_purpleair_data: position of the for loop
    air_data,        \* process_purpleair_data: the kept readings
    processed,       \* process_purpleair_data: counter
    skipped,         \* process_purpleair_data: counter
    outliers,        \* purpleair_analysis.py only: counter
    air_df,          \* the DataFrame main() receives
    plots,           \* create_data_analysis_plots's categories and counts
    markers,         \* create_interactive_map's circle markers
    legend,          \* create_interactive_map's legend
    grid,            \* create_pm25_heatmap's result
    image,           \* create_visualization: what imshow was given
    summary,         \* create_interactive_map's printed summary
    epa_csv,         \* input: epa_utah_data.csv on disk
    df_filtered,     \* process_epa_data: the records it aggregates
    epa_sites,       \* process_epa_data: one row per monitoring site
    epa_maps,        \* EPA main(): the maps drawn, with what each was given
    env,             \* input: EPA_EMAIL and EPA_KEY after load_dotenv()
    email,           \* get_epa_data.main: local
    key,             \* get_epa_data.main: local
    verified,        \* get_epa_data.main: <<what verify_credentials returned>>
    fetch_args,      \* the arguments fetch_pm25_data was called with
    requests,        \* the HTTP requests sent so far, in order
    responses,       \* fetch_pm25_data: the responses received so far
    county_idx,      \* fetch_pm25_data: position of the for loop
    all_data,        \* fetch_pm25_data: the records collected
    json_data,       \* get_epa_data.main: what fetch_pm25_data returned
    saved,           \* the CSV process_and_save_data wrote
    trax_requests,   \* sensorDataFinder.py: the HTTP requests sent so far
    var_idx,         \* fetch_trax_history: position of "for var_name in pm25_vars"
    process_calls,   \* the calls of process_trax_data so far, with how each ended
    trax_csv         \* the frames written to trax_mobile_data.csv, in order

mainVars   == <<script, pc, trace, console, outputs>>
censusVars == <<shp, acs, gdf, census_df, merged_gdf, area_95th>>
sensorVars == <<sensor_csv, sensor_lookup>>
ingestVars == <<purpleair_dir, csv_files, total_files, date_range_info, idx,
                air_data, processed, skipped, outliers, air_df>>
renderVars == <<plots, markers, legend, grid, image, summary>>
epaVars    == <<epa_csv, df_filtered, epa_sites, epa_maps>>
fetchVars  == <<env, email, key, verified, fetch_args, requests, responses, county_idx,
                all_data, json_data, saved>>

traxVars   == <<trax_requests, var_idx, process_calls, trax_csv>>

vars == <<mainVars, censusVars, sensorVars, ingestVars, renderVars, epaVars,
          fetchVars, traxVars>>

-----------------------------------------------------------------------------
(* Values that may be missing *)

Num(n) == <<"num", n>>
NaN == <<"nan", 0>>
IsNaN(v) == v[1] = "nan"
None == <<"none">>

-----------------------------------------------------------------------------
(* Text: str.split() and int() *)

Digits == {"0", "1", "2", "3", "4", "5", "6", "7", "8", "9"}

DigitVal(c) ==
    CASE c = "0" -> 0 [] c = "1" -> 1 [] c = "2" -> 2 [] c = "3" -> 3
      [] c = "4" -> 4 [] c = "5" -> 5 [] c = "6" -> 6 [] c = "7" -> 7
      [] c = "8" -> 8 [] c = "9" -> 9

\* str.split(): the maximal runs of non-blank characters, in order.
RECURSIVE SplitFrom(_, _, _)
SplitFrom(s, cur, acc) ==
    IF s = <<>>
    THEN IF cur = <<>> THEN acc ELSE Append(acc, cur)
    ELSE IF Head(s) = " "
         THEN SplitFrom(Tail(s), <<>>, IF cur = <<>> THEN acc ELSE Append(acc, cur))
         ELSE SplitFrom(Tail(s), Append(cur, Head(s)), acc)

Split(s) == SplitFrom(s, <<>>, <<>>)

\* The digits of a token after an optional sign.
Unsigned(tok) ==
    IF tok # <<>> /\ Head(tok) \in {"+", "-"} THEN Tail(tok) ELSE tok

\* int(tok) succeeds: an optional sign followed by one or more digits.
IntParses(tok) ==
    /\ Unsigned(tok) # <<>>
    /\ \A i \in 1..Len(Unsigned(tok)) : Unsigned(tok)[i] \in Digits

RECURSIVE DigitsValue(_, _)
DigitsValue(ds, acc) ==
    IF ds = <<>> THEN acc ELSE DigitsValue(Tail(ds), 10 * acc + DigitVal(Head(ds)))

\* int(tok) for a token that parses.
IntOf(tok) ==
    IF tok # <<>> /\ Head(tok) = "-"
    THEN 0 - DigitsValue(Unsigned(tok), 0)
    ELSE DigitsValue(Unsigned(tok), 0)


-----------------------------------------------------------------------------
(* Steps A and B: tracts and demographics                                  *)
(* (PurpleAirDataAnalysis/main.py 43-149, EPADataAnalysis/main.py 45-159)  *)
(* A GEOID is the pair <<county, tract>>; a census GEO_ID is a sequence of *)
(* parts, <<"1400000US", county, tract>> for a tract row.                  *)

SALT_LAKE_COUNTY == "49035"
DAVIS_COUNTY == "49011"

GEO_PREFIX == "1400000US"

\* gdf['GEOID'].str.startswith(SALT_LAKE_COUNTY) | ...startswith(DAVIS_COUNTY)
InStudyCounties(t) == t.GEOID[1] \in {SALT_LAKE_COUNTY, DAVIS_COUNTY}

\* The age columns each script sums, and the column its merge filters on.
Age80Columns == {"B01001_024E", "B01001_025E", "B01001_048E", "B01001_049E"}
Age85Columns == {"B01001_025E", "B01001_049E"}
Age65Columns == {"B01001_020E", "B01001_021E", "B01001_022E", "B01001_023E",
                 "B01001_024E", "B01001_025E", "B01001_044E", "B01001_045E",
                 "B01001_046E", "B01001_047E", "B01001_048E", "B01001_049E"}
TOTAL_COLUMN == "B01001_001E"

FilterColumn(scr) == IF scr = "epa" THEN "pop_65_plus" ELSE "pop_80_plus"

\* pd.to_numeric(x, errors='coerce').fillna(0)
ToNumeric(entry) == IF entry[1] = "num" THEN entry[2] ELSE 0

RECURSIVE SumColumns(_, _)
SumColumns(row, cols) ==
    IF cols = {} THEN 0
    ELSE LET c == CHOOSE x \in cols : TRUE
         IN  ToNumeric(row[c]) + SumColumns(row, cols \ {c})

\* A percentage that forgets the total, to compare with the code's.
Percentage_WithoutTotal(pop, total) == pop * 10000

\* (pop / total_pop.replace(0, 1)) * 100, in hundredths of a percent
Percentage(pop, total) == (pop * 10000) \div (IF total = 0 THEN 1 ELSE total)

\* A key that keeps the prefix, to compare with the code's.
StripPrefix_KeepsPrefix(geo_id) == geo_id

\* df['GEO_ID'].str.replace('1400000US', '', regex=False)
StripPrefix(geo_id) == SelectSeq(geo_id, LAMBDA part : part # GEO_PREFIX)

\* One row of census_df.
CensusRow(row, scr) ==
    LET total == ToNumeric(row[TOTAL_COLUMN])
    IN  IF scr = "epa"
        THEN [GEOID |-> StripPrefix(row.GEO_ID),
              cols  |-> [c \in {"pop_65_plus", "pop_65_plus_pct",
                                "pop_85_plus", "pop_85_plus_pct"} |->
                  CASE c = "pop_65_plus" -> SumColumns(row, Age65Columns)
                    [] c = "pop_65_plus_pct" ->
                           Percentage(SumColumns(row, Age65Columns), total)
                    [] c = "pop_85_plus" -> SumColumns(row, Age85Columns)
                    [] c = "pop_85_plus_pct" ->
                           Percentage(SumColumns(row, Age85Columns), total)]]
        ELSE [GEOID |-> StripPrefix(row.GEO_ID),
              cols  |-> [c \in {"pop_80_plus", "pop_80_plus_pct"} |->
                  CASE c = "pop_80_plus" -> SumColumns(row, Age80Columns)
                    [] c = "pop_80_plus_pct" ->
                           Percentage(SumColumns(row, Age80Columns), total)]]

\* gdf.merge(census_df, on='GEOID', how='inner'): the pairs with equal GEOID,
\* in the order of the left rows.
RECURSIVE InnerJoin(_, _)
InnerJoin(left, right) ==
    IF left = <<>> THEN <<>>
    ELSE LET t == Head(left)
             matches == SelectSeq(right, LAMBDA c : c.GEOID = t.GEOID)
         IN  [i \in 1..Len(matches) |->
                 [GEOID |-> t.GEOID, area |-> t.area, cols |-> matches[i].cols]]
             \o InnerJoin(Tail(left), right)

\* Series.quantile(0.95), linear interpolation between the order statistics
\* at position 0.95 * (n - 1); the result is multiplied by 20 to stay whole.
Quantile95(values) ==
    LET n == Len(values)
        sorted == SortSeq(values, LAMBDA a, b : a < b)
        k == (19 * (n - 1)) \div 20
        r == (19 * (n - 1)) % 20
    IN  IF n = 0 THEN NaN
        ELSE IF r = 0 THEN Num(20 * sorted[k + 1])
        ELSE Num(20 * sorted[k + 1] + r * (sorted[k + 2] - sorted[k + 1]))

\* A comparison that also drops a tract at the threshold, to compare with
\* the code's.
AboveThreshold_OrEqual(area, q95) == ~IsNaN(q95) /\ 20 * area >= q95[2]

\* merged['area_m2'] > area_95th (never true against a NaN threshold)
AboveThreshold(area, q95) == ~IsNaN(q95) /\ 20 * area > q95[2]

\* merged[merged[pop] > 0]
Inhabited(rows, col) == SelectSeq(rows, LAMBDA t : t.cols[col] > 0)

\* A mask that selects no tract, to compare with the code's.
OutlierMask_Never(t, col, q95) == FALSE

\* outlier_mask = (merged[pop] < 10) & (merged['area_m2'] > area_95th)
OutlierMask(t, col, q95) == t.cols[col] < 10 /\ AboveThreshold(t.area, q95)

MergeResult(left, right, scr) ==
    LET col == FilterColumn(scr)
        inhabited == Inhabited(InnerJoin(left, right), col)
        q95 == Quantile95([i \in 1..Len(inhabited) |-> inhabited[i].area])
    IN  SelectSeq(inhabited, LAMBDA t : ~OutlierMask(t, col, q95))

MergeThreshold(left, right, scr) ==
    LET inhabited == Inhabited(InnerJoin(left, right), FilterColumn(scr))
    IN  Quantile95([i \in 1..Len(inhabited) |-> inhabited[i].area])

LoadAndFilterShapefile ==
    /\ pc = "load_shapefile"
    /\ trace' = Append(trace, "load_shapefile")
    /\ IF ~shp.exists
       THEN /\ pc' = "crashed"
            /\ UNCHANGED gdf
       ELSE /\ pc' = "process_census"
            /\ gdf' = SelectSeq(shp.tracts, InStudyCounties)
    /\ UNCHANGED <<script, console, outputs>>
    /\ UNCHANGED <<shp, acs, census_df, merged_gdf, area_95th>>
    /\ UNCHANGED <<sensorVars, ingestVars, renderVars, epaVars, fetchVars>>
    /\ UNCHANGED traxVars

ProcessCensusData ==
    /\ pc = "process_census"
    /\ trace' = Append(trace, "process_census")
    /\ IF ~acs.exists
       THEN /\ pc' = "crashed"
            /\ UNCHANGED census_df
       ELSE /\ pc' = "merge"
            /\ census_df' = [i \in 1..Len(acs.rows) |-> CensusRow(acs.rows[i], script)]
    /\ UNCHANGED <<script, console, outputs>>
    /\ UNCHANGED <<shp, acs, gdf, merged_gdf, area_95th>>
    /\ UNCHANGED <<sensorVars, ingestVars, renderVars, epaVars, fetchVars>>
    /\ UNCHANGED traxVars

MergeGeoAndCensus ==
    /\ pc = "merge"
    /\ trace' = Append(trace, "merge")
    /\ merged_gdf' = MergeResult(gdf, census_df, script)
    /\ area_95th' = MergeThreshold(gdf, census_df, script)
    /\ console' = IF Len(MergeResult(gdf, census_df, script))
                       < Len(Inhabited(InnerJoin(gdf, census_df), FilterColumn(script)))
                  THEN console \cup {"dropping_outlier_tracts"} ELSE console
    /\ pc' = IF script = "epa" THEN "process_epa" ELSE "load_sensors"
    /\ UNCHANGED <<script, outputs>>
    /\ UNCHANGED <<shp, acs, gdf, census_df>>
    /\ UNCHANGED <<sensorVars, ingestVars, renderVars, epaVars, fetchVars>>
    /\ UNCHANGED traxVars

-----------------------------------------------------------------------------
(* Step C: the sensor list (main.py 154-163, purpleair_analysis.py 46-52)  *)

\* for _, row in sensors.iterrows(): sensor_lookup[int(sensor_index)] = (lat, lon)
\* A later row with the same id replaces the earlier one.
RECURSIVE BuildLookup(_, _)
BuildLookup(rows, acc) ==
    IF rows = <<>>
    THEN acc
    ELSE LET row == Head(rows)
             id  == row.sensor_index[2]
         IN  BuildLookup(Tail(rows),
                 [k \in (DOMAIN acc) \cup {id} |->
                     IF k = id THEN <<row.latitude, row.longitude>> ELSE acc[k]])

\* int(row['sensor_index']) raises for a missing sensor_index.
LookupRaises(csv) ==
    \/ ~csv.exists
    \/ \E i \in 1..Len(csv.rows) : IsNaN(csv.rows[i].sensor_index)

LoadSensorLocations ==
    /\ pc = "load_sensors"
    /\ trace' = Append(trace, "load_sensors")
    /\ IF LookupRaises(sensor_csv)
       THEN /\ pc' = "crashed"
            /\ UNCHANGED sensor_lookup
       ELSE /\ pc' = "ingest_begin"
            /\ sensor_lookup' = BuildLookup(sensor_csv.rows, <<>>)
    /\ UNCHANGED <<script, console, outputs, sensor_csv>>
    /\ UNCHANGED <<censusVars, ingestVars, renderVars, epaVars, fetchVars>>
    /\ UNCHANGED traxVars

-----------------------------------------------------------------------------
(* Step C: process_purpleair_data                                          *)
(* (main.py 165-268, purpleair_analysis.py 55-143)                         *)

PM25_CORRECTION_SLOPE == 778            \* 0.778, in thousandths
PM25_CORRECTION_INTERCEPT == 2650000    \* 2.65, in millionths
PM25_OUTLIER_THRESHOLD == 500000000     \* 500, in millionths

PM_COLUMN == "pm2.5_cf_1"

DefaultInterval == <<"6", "0", "-", "M", "i", "n", "u", "t", "e">>

RECURSIVE SeqSum(_)
SeqSum(s) == IF s = <<>> THEN 0 ELSE Head(s)[2] + SeqSum(Tail(s))

NotMissing(v) == ~IsNaN(v)

\* Series.mean(): the mean of the non-missing entries (tenths in,
\* thousandths out), NaN when there is none.
SeriesMean(col) ==
    LET vals == SelectSeq(col, NotMissing)
    IN  IF vals = <<>> THEN NaN
        ELSE Num((SeqSum(vals) * 100) \div Len(vals))

\* A correction without the intercept, to compare with the code's.
CorrectedPm25_NoIntercept(raw_milli) == 778 * raw_milli

\* corrected_pm25 = (0.778 * raw_pm25) + 2.65, thousandths in, millionths out
CorrectedPm25(raw_milli) ==
    (PM25_CORRECTION_SLOPE * raw_milli) + PM25_CORRECTION_INTERCEPT

\* A threshold test that rejects nothing, to compare with the code's.
IsOutlier_Never(corrected) == FALSE

\* if corrected_pm25 > 500
IsOutlier(corrected) == corrected > PM25_OUTLIER_THRESHOLD

\* What the body of the for loop does with one file, in the order of the
\* code's checks: "exception" is the except branch.
FileOutcome(f, lookup) ==
    LET parts == Split(f.name)
    IN  IF parts = <<>> \/ ~IntParses(parts[1]) THEN "exception"
        ELSE IF IntOf(parts[1]) \notin DOMAIN lookup THEN "unknown_sensor"
        ELSE IF ~f.readable THEN "exception"
        ELSE IF PM_COLUMN \notin f.columns THEN "no_column"
        ELSE IF f.dtype # "float" THEN "exception"
        ELSE IF IsNaN(SeriesMean(f.pm)) THEN "nan"
        ELSE IF IsOutlier(CorrectedPm25(SeriesMean(f.pm)[2])) THEN "outlier"
        ELSE "kept"

\* A count that forgets the early continues, to compare with the code's.
CountsSkipped_ExceptOnly(outcome, scr) == outcome = "exception"

\* The branches that run "skipped += 1": every early continue and the except
\* branch in both scripts, and the outlier branch in main.py only
\* (purpleair_analysis.py counts it in outliers).
CountsSkipped(outcome, scr) ==
    \/ outcome \in {"exception", "unknown_sensor", "no_column", "nan"}
    \/ (outcome = "outlier" /\ scr = "main")

\* The dict appended to air_data for a kept file.
Reading(f, lookup) ==
    LET sensor_id == IntOf(Split(f.name)[1])
    IN  [lat       |-> lookup[sensor_id][1],
         lon       |-> lookup[sensor_id][2],
         pm25      |-> CorrectedPm25(SeriesMean(f.pm)[2]),
         sensor_id |-> sensor_id]

\* A date range taken from the last file name, to compare with the code's.
DateRangeOf_LastFile(files) ==
    LET default == [start_date |-> None, end_date |-> None,
                    interval |-> DefaultInterval]
    IN  IF files = <<>> THEN default
        ELSE LET parts == Split(files[Len(files)].name)
             IN  IF Len(parts) >= 4
                 THEN [start_date |-> parts[2], end_date |-> parts[3],
                       interval |-> parts[4]]
                 ELSE default

\* date_range_info from the first file name (main.py 185-195).
DateRangeOf(files) ==
    LET default == [start_date |-> None, end_date |-> None,
                    interval |-> DefaultInterval]
    IN  IF files = <<>> THEN default
        ELSE LET parts == Split(files[1].name)
             IN  IF Len(parts) >= 4
                 THEN [start_date |-> parts[2], end_date |-> parts[3],
                       interval |-> parts[4]]
                 ELSE default

\* glob, total_files, the date range, and the counters set to zero
IngestBegin ==
    /\ pc = "ingest_begin"
    /\ trace' = Append(trace, "ingest")
    /\ csv_files' = purpleair_dir
    /\ total_files' = Len(purpleair_dir)
    /\ date_range_info' = DateRangeOf(purpleair_dir)
    /\ console' = IF DateRangeOf(purpleair_dir).start_date # None
                  THEN console \cup {"data_period"} ELSE console
    /\ air_data' = <<>>
    /\ processed' = 0
    /\ skipped' = 0
    /\ outliers' = 0
    /\ idx' = 1
    /\ pc' = "ingest_loop"
    /\ UNCHANGED <<script, outputs, purpleair_dir, air_df>>
    /\ UNCHANGED <<censusVars, sensorVars, renderVars, epaVars, fetchVars>>
    /\ UNCHANGED traxVars

\* A loop that stops at the first file it cannot use, to compare with the
\* code's.
IngestFile_BreaksOnError ==
    /\ pc = "ingest_loop"
    /\ idx <= Len(csv_files)
    /\ LET f == csv_files[idx]
           outcome == FileOutcome(f, sensor_lookup)
       IN  /\ air_data' = IF outcome = "kept"
                          THEN Append(air_data, Reading(f, sensor_lookup))
                          ELSE air_data
           /\ processed' = IF outcome = "kept" THEN processed + 1 ELSE processed
           /\ skipped' = IF CountsSkipped(outcome, script)
                         THEN skipped + 1 ELSE skipped
           /\ outliers' = IF outcome = "outlier" /\ script = "analysis"
                          THEN outliers + 1 ELSE outliers
           /\ console' = IF outcome = "outlier"
                         THEN console \cup {"warning_outlier"} ELSE console
           /\ idx' = IF outcome = "kept" THEN idx + 1 ELSE Len(csv_files) + 1
    /\ UNCHANGED <<script, pc, trace, outputs>>
    /\ UNCHANGED <<purpleair_dir, csv_files, total_files, date_range_info, air_df>>
    /\ UNCHANGED <<censusVars, sensorVars, renderVars, epaVars, fetchVars>>
    /\ UNCHANGED traxVars

\* one iteration of: for csv_file in csv_files
IngestFile ==
    /\ pc = "ingest_loop"
    /\ idx <= Len(csv_files)
    /\ LET f == csv_files[idx]
           outcome == FileOutcome(f, sensor_lookup)
       IN  /\ air_data' = IF outcome = "kept"
                          THEN Append(air_data, Reading(f, sensor_lookup))
                          ELSE air_data
           /\ processed' = IF outcome = "kept" THEN processed + 1 ELSE processed
           /\ skipped' = IF CountsSkipped(outcome, script)
                         THEN skipped + 1 ELSE skipped
           /\ outliers' = IF outcome = "outlier" /\ script = "analysis"
                          THEN outliers + 1 ELSE outliers
           /\ console' = IF outcome = "outlier"
                         THEN console \cup {"warning_outlier"} ELSE console
    /\ idx' = idx + 1
    /\ UNCHANGED <<script, pc, trace, outputs>>
    /\ UNCHANGED <<purpleair_dir, csv_files, total_files, date_range_info, air_df>>
    /\ UNCHANGED <<censusVars, sensorVars, renderVars, epaVars, fetchVars>>
    /\ UNCHANGED traxVars

\* after the loop: air_df = pd.DataFrame(air_data); return
IngestReturn ==
    /\ pc = "ingest_loop"
    /\ idx > Len(csv_files)
    /\ air_df' = air_data
    /\ console' = console \cup {"ingest_summary"}
    /\ pc' = "check_empty"
    /\ UNCHANGED <<script, trace, outputs>>
    /\ UNCHANGED <<purpleair_dir, csv_files, total_files, date_range_info, idx,
                   air_data, processed, skipped, outliers>>
    /\ UNCHANGED <<censusVars, sensorVars, renderVars, epaVars, fetchVars>>
    /\ UNCHANGED traxVars

-----------------------------------------------------------------------------
(* main(): the empty check and steps C.5 to F                              *)
(* (main.py 273-820, purpleair_analysis.py 149-196)                        *)
(* purpleair_analysis.py calls lib.census, lib.interpolation and           *)
(* lib.visualization for its stages; what it passes and in which order is  *)
(* in the script, and only that is modelled for it.                        *)

\* def get_aqi_category(pm25), thresholds 12 and 35 in millionths
get_aqi_category(pm25) ==
    IF pm25 < 12000000 THEN "Good"
    ELSE IF pm25 < 35000000 THEN "Moderate"
    ELSE "Unhealthy"

\* def get_pm25_color(pm25_value)
get_pm25_color(pm25_value) ==
    IF pm25_value < 12000000 THEN "green"
    ELSE IF pm25_value < 35000000 THEN "orange"
    ELSE "red"

\* create_interactive_map: status, the AQI category of the popup
PopupStatus(pm25) ==
    IF pm25 < 12000000 THEN "Good"
    ELSE IF pm25 < 35000000 THEN "Moderate"
    ELSE "Unhealthy for Sensitive Groups"

\* The three lines of legend_html: the swatch colour and the printed range,
\* "Good (<12 ug/m3)", "Moderate (12-35 ug/m3)", "Unhealthy (>35 ug/m3)".
LegendLines ==
    << [color |-> "green",  name |-> "Good",      range |-> "<",
        lo |-> 12000000, hi |-> 12000000],
       [color |-> "orange", name |-> "Moderate",  range |-> "-",
        lo |-> 12000000, hi |-> 35000000],
       [color |-> "red",    name |-> "Unhealthy", range |-> ">",
        lo |-> 35000000, hi |-> 35000000] >>

\* A count whose upper limit is inclusive, to compare with the code's.
CountIn_Inclusive(df, lo, hi) ==
    Cardinality({i \in 1..Len(df) :
        (lo = None \/ df[i].pm25 >= lo[2]) /\ (hi = None \/ df[i].pm25 <= hi[2])})

\* len(air_df[air_df['pm25'] < 12]) and the two other counts
CountIn(df, lo, hi) ==
    Cardinality({i \in 1..Len(df) :
        (lo = None \/ df[i].pm25 >= lo[2]) /\ (hi = None \/ df[i].pm25 < hi[2])})

CategoryCounts(df) ==
    [good      |-> CountIn(df, None, Num(12000000)),
     moderate  |-> CountIn(df, Num(12000000), Num(35000000)),
     unhealthy |-> CountIn(df, Num(35000000), None),
     total     |-> Len(df)]

OutputPng(scr) ==
    IF scr = "main" THEN "final_analysis_map.png"
    ELSE "output/purpleair_analysis_map.png"

OutputHtml(scr) ==
    IF scr = "main" THEN "slc_analysis_interactive.html"
    ELSE "output/purpleair_analysis_interactive.html"

\* A main() without the empty check, to compare with the code's.
AfterIngest_NoEmptyCheck(df, scr) == IF scr = "main" THEN "plots" ELSE "heatmap"

\* A main() that goes from ingestion straight to the static map.
AfterIngest_SkipsGrid(df, scr) == IF Len(df) = 0 THEN "returned" ELSE "static"

\* Where main() goes after process_purpleair_data: it returns on an empty
\* air_df; main.py goes on to step C.5, purpleair_analysis.py to the grid.
AfterIngest(df, scr) ==
    IF Len(df) = 0 THEN "returned"
    ELSE IF scr = "main" THEN "plots" ELSE "heatmap"

\* if len(air_df) == 0: print("ERROR: ..."); return
CheckEmpty ==
    /\ pc = "check_empty"
    /\ console' = IF Len(air_df) = 0
                  THEN console \cup {"error_no_valid_sensor_data"} ELSE console
    /\ pc' = AfterIngest(air_df, script)
    /\ UNCHANGED <<script, trace, outputs>>
    /\ UNCHANGED <<censusVars, sensorVars, ingestVars, renderVars, epaVars, fetchVars>>
    /\ UNCHANGED traxVars

\* create_data_analysis_plots: the aqi_category column (held in plots, beside
\* the rows of air_df), the table's counts, and the saved figure
CreateDataAnalysisPlots ==
    /\ pc = "plots"
    /\ trace' = Append(trace, "plots")
    /\ plots' = [aqi_category |->
                     [i \in 1..Len(air_df) |-> get_aqi_category(air_df[i].pm25)],
                 table |-> CategoryCounts(air_df)]
    /\ outputs' = outputs \cup {"purpleair_data_analysis.png"}
    /\ pc' = "heatmap"
    /\ UNCHANGED <<script, console>>
    /\ UNCHANGED <<markers, legend, grid, image, summary>>
    /\ UNCHANGED <<censusVars, sensorVars, ingestVars, epaVars, fetchVars>>
    /\ UNCHANGED traxVars

\* create_pm25_heatmap(air_df, bounds, resolution=200).  Coordinates are whole
\* numbers of the projected plane: x is a reading's lon, y its lat (to_crs is
\* applied to the points and to nothing else, and is left out).  A grid is
\* held by what defines it: the resolution, the bounds and the points; its
\* axes and cells are the operators grid_x, grid_y and grid_pm25 below.

\* resolution=200, the default, which main() passes as well
DefaultResolution == 200

\* merged_gdf.total_bounds: <<minx, miny, maxx, maxy>>, all NaN for no tract;
\* the tracts' geometry is held by the box of the shapefile only
NaNBounds == <<>>

total_bounds(frame, box) == IF Len(frame) = 0 THEN NaNBounds ELSE box

\* The box of the county's tracts in the inputs below.
CountyBox == <<-114, 40, -110, 44>>

\* np.linspace(lo, hi, n), every value multiplied by n - 1
Linspace(lo, hi, n) == [i \in 1..n |-> lo * (n - 1) + (i - 1) * (hi - lo)]

\* Twice the signed area of the triangle a, b, c.
Cross(a, b, c) ==
    (b[1] - a[1]) * (c[2] - a[2]) - (b[2] - a[2]) * (c[1] - a[1])

\* d lies strictly inside the circle through a, b and c.
InCircle(a, b, c, d) ==
    LET adx == a[1] - d[1]  ady == a[2] - d[2]
        bdx == b[1] - d[1]  bdy == b[2] - d[2]
        cdx == c[1] - d[1]  cdy == c[2] - d[2]
        det == (adx * adx + ady * ady) * (bdx * cdy - cdx * bdy)
             - (bdx * bdx + bdy * bdy) * (adx * cdy - cdx * ady)
             + (cdx * cdx + cdy * cdy) * (adx * bdy - bdx * ady)
    IN  det * Cross(a, b, c) > 0

\* The Delaunay triangulation griddata builds of the points: the triangles
\* whose circle holds no other point.
Simplices(points) ==
    {t \in (1..Len(points)) \X (1..Len(points)) \X (1..Len(points)) :
        /\ t[1] < t[2] /\ t[2] < t[3]
        /\ Cross(points[t[1]], points[t[2]], points[t[3]]) # 0
        /\ \A l \in 1..Len(points) :
               ~InCircle(points[t[1]], points[t[2]], points[t[3]], points[l])}

\* q lies in the triangle a, b, c, its edges included.
InSimplex(q, a, b, c) ==
    LET d1 == Cross(a, b, q)
        d2 == Cross(b, c, q)
        d3 == Cross(c, a, q)
    IN  ~((d1 < 0 \/ d2 < 0 \/ d3 < 0) /\ (d1 > 0 \/ d2 > 0 \/ d3 > 0))

\* v * w / d without the product v * w.
MulDiv(v, w, d) == (v \div d) * w + ((v % d) * w) \div d

Abs(n) == IF n < 0 THEN 0 - n ELSE n

\* A griddata that extrapolates with 0 outside the triangles, to compare with
\* the code's.
FillValue_Zero == <<"num", 0>>

\* griddata's fill_value, which the call leaves at its default
FillValue == NaN

\* griddata(points, values, q, method='linear') at one point q, the points
\* and q multiplied by k: the barycentric mean over the triangle that holds
\* q, fill_value where no triangle does.
Griddata(points, values, q, k) ==
    LET scaled == [i \in 1..Len(points) |-> <<k * points[i][1], k * points[i][2]>>]
        holding == {t \in Simplices(points) :
                       InSimplex(q, scaled[t[1]], scaled[t[2]], scaled[t[3]])}
    IN  IF holding = {} THEN FillValue
        ELSE LET t == CHOOSE s \in holding : TRUE
                 a == scaled[t[1]]
                 b == scaled[t[2]]
                 c == scaled[t[3]]
                 d == Abs(Cross(a, b, c))
             IN  Num(MulDiv(values[t[1]], Abs(Cross(b, c, q)), d)
                     + MulDiv(values[t[2]], Abs(Cross(c, a, q)), d)
                     + MulDiv(values[t[3]], Abs(Cross(a, b, q)), d))

\* The cases in which griddata raises: a coordinate that is NaN, or no three
\* points that span a triangle.
HeatmapRaises(df) ==
    \/ \E i \in 1..Len(df) : IsNaN(df[i].lat) \/ IsNaN(df[i].lon)
    \/ ~\E i, j, l \in 1..Len(df) :
           Cross(<<df[i].lon[2], df[i].lat[2]>>, <<df[j].lon[2], df[j].lat[2]>>,
                 <<df[l].lon[2], df[l].lat[2]>>) # 0

create_pm25_heatmap(df, bounds, resolution) ==
    [resolution  |-> resolution,
     bounds      |-> bounds,
     points      |-> [i \in 1..Len(df) |-> <<df[i].lon[2], df[i].lat[2]>>],
     pm25_values |-> [i \in 1..Len(df) |-> df[i].pm25]]

\* grid_x = np.linspace(minx, maxx, resolution), times resolution - 1
grid_x(g) ==
    IF g.bounds = NaNBounds THEN [i \in 1..g.resolution |-> NaN]
    ELSE Linspace(g.bounds[1], g.bounds[3], g.resolution)

\* grid_y = np.linspace(miny, maxy, resolution), times resolution - 1
grid_y(g) ==
    IF g.bounds = NaNBounds THEN [i \in 1..g.resolution |-> NaN]
    ELSE Linspace(g.bounds[2], g.bounds[4], g.resolution)

\* grid_pm25[row][col], the value at (grid_x[col], grid_y[row])
grid_pm25(g, row, col) ==
    IF g.bounds = NaNBounds THEN NaN
    ELSE Griddata(g.points, g.pm25_values, <<grid_x(g)[col], grid_y(g)[row]>>,
                  g.resolution - 1)

\* The body of create_pm25_heatmap for one resolution, as main.py has it; of
\* lib.interpolation.create_pm25_grid, which purpleair_analysis.py calls,
\* only the call is held.
Heatmap(resolution) ==
    /\ pc = "heatmap"
    /\ trace' = Append(trace, "interpolate")
    /\ IF script = "main" /\ HeatmapRaises(air_df)
       THEN /\ pc' = "crashed"
            /\ UNCHANGED grid
       ELSE /\ grid' = create_pm25_heatmap(air_df, total_bounds(merged_gdf, shp.box),
                                           resolution)
            /\ pc' = "static"
    /\ UNCHANGED <<script, console, outputs>>
    /\ UNCHANGED <<plots, markers, legend, image, summary>>
    /\ UNCHANGED <<censusVars, sensorVars, ingestVars, epaVars, fetchVars>>
    /\ UNCHANGED traxVars

\* main(): create_pm25_heatmap(air_df, bounds, resolution=200)
CreatePm25Heatmap == Heatmap(DefaultResolution)

\* The first and the last value of a linspace axis, its min() and max().
AxisEnds(axis) == <<axis[1], axis[Len(axis)]>>

\* ax2.imshow(grid_pm25, extent=[grid_x.min(), grid_x.max(), grid_y.min(),
\* grid_y.max()], origin='lower', ...): what the image layer is given (no
\* extent where no grid was made)
Imshow(g) ==
    [data   |-> g,
     extent |-> IF g = <<>> THEN <<>>
                ELSE <<AxisEnds(grid_x(g))[1], AxisEnds(grid_x(g))[2],
                       AxisEnds(grid_y(g))[1], AxisEnds(grid_y(g))[2]>>,
     origin |-> "lower"]

\* create_visualization: the heat map layer and plt.savefig(output_file)
CreateVisualization ==
    /\ pc = "static"
    /\ trace' = Append(trace, "static_render")
    /\ image' = IF script = "main" THEN Imshow(grid) ELSE image
    /\ outputs' = outputs \cup {OutputPng(script)}
    /\ pc' = "interactive"
    /\ UNCHANGED <<script, console>>
    /\ UNCHANGED <<plots, markers, legend, grid, summary>>
    /\ UNCHANGED <<censusVars, sensorVars, ingestVars, epaVars, fetchVars>>
    /\ UNCHANGED traxVars

\* A marker placed at (lon, lat), to compare with the code's.
Marker_AtLonLat(row) ==
    [location   |-> <<row.lon, row.lat>>,
     fill_color |-> get_pm25_color(row.pm25),
     status     |-> PopupStatus(row.pm25),
     sensor_id  |-> row.sensor_id,
     pm25       |-> row.pm25]

\* One folium.CircleMarker of create_interactive_map.
Marker(row) ==
    [location   |-> <<row.lat, row.lon>>,
     fill_color |-> get_pm25_color(row.pm25),
     status     |-> PopupStatus(row.pm25),
     sensor_id  |-> row.sensor_id,
     pm25       |-> row.pm25]

\* create_interactive_map: the markers, the legend, m.save, the summary
CreateInteractiveMap ==
    /\ pc = "interactive"
    /\ trace' = Append(trace, "interactive_render")
    /\ IF script = "main"
       THEN /\ markers' = [i \in 1..Len(air_df) |-> Marker(air_df[i])]
            /\ legend' = [lines |-> LegendLines, sensors |-> Len(air_df)]
            /\ summary' = CategoryCounts(air_df)
       ELSE UNCHANGED <<markers, legend, summary>>
    /\ outputs' = outputs \cup {OutputHtml(script)}
    /\ console' = console \cup {"complete"}
    /\ pc' = "done"
    /\ UNCHANGED <<script, plots, grid, image>>
    /\ UNCHANGED <<censusVars, sensorVars, ingestVars, epaVars, fetchVars>>
    /\ UNCHANGED traxVars

-----------------------------------------------------------------------------
(* EPADataAnalysis/main.py: step C, process_epa_data, and the rest of      *)
(* main().  A date is <<year, month, day>>; a date_local cell of the CSV   *)
(* is <<"date", y, m, d>>, missing (<<"nan", 0>>) or other text.           *)

INVERSION_START == <<2025, 1, 1>>
INVERSION_END   == <<2025, 1, 30>>

NaT == <<"NaT">>

\* The columns process_epa_data reads.
EpaColumns == {"site_number", "local_site_name", "latitude", "longitude",
               "date_local", "pm25_value"}

\* pd.to_datetime on one cell: a date, NaT for a missing cell; other text
\* makes the call raise.
DateParses(cell) == cell[1] \in {"date", "nan"}

ToDatetime(cell) ==
    IF cell[1] = "date" THEN <<cell[2], cell[3], cell[4]>> ELSE NaT

\* Timestamp a <= Timestamp b; every comparison with NaT is False.
DateLeq(a, b) ==
    /\ a # NaT
    /\ b # NaT
    /\ \/ a[1] < b[1]
       \/ (a[1] = b[1] /\ a[2] < b[2])
       \/ (a[1] = b[1] /\ a[2] = b[2] /\ a[3] <= b[3])

\* mask = (date_local >= INVERSION_START) & (date_local <= INVERSION_END)
InInversionWindow(r) ==
    DateLeq(INVERSION_START, r.date_local) /\ DateLeq(r.date_local, INVERSION_END)

\* A window test that lets every record through, to compare with the code's.
WindowOrAll_KeepsAll(df) == df

\* df_filtered = df[mask], or df itself when the mask selects nothing.
WindowOrAll(df) ==
    IF Len(SelectSeq(df, InInversionWindow)) = 0 THEN df
    ELSE SelectSeq(df, InInversionWindow)

\* The group key of a record; groupby leaves out a record with a missing key.
SiteKey(r) == <<r.site_number, r.local_site_name, r.latitude, r.longitude>>

HasSiteKey(r) ==
    ~IsNaN(r.site_number) /\ ~IsNaN(r.local_site_name)
        /\ ~IsNaN(r.latitude) /\ ~IsNaN(r.longitude)

\* The order groupby sorts the keys in (sites of one number and place differ
\* in nothing else here).
KeyBefore(a, b) ==
    \/ a[1][2] < b[1][2]
    \/ (a[1][2] = b[1][2] /\ a[3][2] < b[3][2])
    \/ (a[1][2] = b[1][2] /\ a[3][2] = b[3][2] /\ a[4][2] < b[4][2])

RECURSIVE SortKeys(_)
SortKeys(keys) ==
    IF keys = {} THEN <<>>
    ELSE LET first == CHOOSE k \in keys : \A o \in keys \ {k} : KeyBefore(k, o)
         IN  <<first>> \o SortKeys(keys \ {first})

\* groupby([...]).agg({'pm25_value': 'mean'}).reset_index()
AggregateBySite(df) ==
    LET keyed == SelectSeq(df, HasSiteKey)
        keys  == SortKeys({SiteKey(keyed[i]) : i \in 1..Len(keyed)})
        Of(k) == SelectSeq(keyed, LAMBDA r : SiteKey(r) = k)
    IN  [g \in 1..Len(keys) |->
            [site_number     |-> keys[g][1],
             local_site_name |-> keys[g][2],
             latitude        |-> keys[g][3],
             longitude       |-> keys[g][4],
             pm25_value      |->
                 SeriesMean([i \in 1..Len(Of(keys[g])) |-> Of(keys[g])[i].pm25_value])]]

\* read_csv raises on a missing file, a column lookup on a missing column,
\* to_datetime on a cell that is no date.
ProcessEpaRaises(csv) ==
    \/ ~csv.exists
    \/ ~(EpaColumns \subseteq csv.columns)
    \/ \E i \in 1..Len(csv.rows) : ~DateParses(csv.rows[i].date_local)

\* def process_epa_data(epa_data_path)
ProcessEpaData ==
    /\ pc = "process_epa"
    /\ trace' = Append(trace, "process_epa")
    /\ IF ProcessEpaRaises(epa_csv)
       THEN /\ pc' = "crashed"
            /\ UNCHANGED <<console, df_filtered, epa_sites>>
       ELSE LET df == [i \in 1..Len(epa_csv.rows) |->
                          [epa_csv.rows[i] EXCEPT
                              !.date_local = ToDatetime(epa_csv.rows[i].date_local)]]
            IN  /\ df_filtered' = WindowOrAll(df)
                /\ console' = IF Len(SelectSeq(df, InInversionWindow)) = 0
                              THEN console \cup {"warning_no_data_for_date_range",
                                                 "using_all_records"}
                              ELSE console
                /\ epa_sites' = AggregateBySite(WindowOrAll(df))
                /\ pc' = "check_epa_sites"
    /\ UNCHANGED <<script, outputs, epa_csv, epa_maps>>
    /\ UNCHANGED <<censusVars, sensorVars, ingestVars, renderVars, fetchVars>>
    /\ UNCHANGED traxVars

\* if len(epa_sites) == 0: print("ERROR: No valid EPA data found."); return
CheckEpaSites ==
    /\ pc = "check_epa_sites"
    /\ IF Len(epa_sites) = 0
       THEN /\ console' = console \cup {"error_no_valid_epa_data"}
            /\ pc' = "returned"
       ELSE /\ console' = console
            /\ pc' = "epa_plots"
    /\ UNCHANGED <<script, trace, outputs>>
    /\ UNCHANGED <<censusVars, sensorVars, ingestVars, renderVars, epaVars,
                   fetchVars>>
    /\ UNCHANGED traxVars

\* create_data_analysis_plots(df_filtered, epa_sites, "epa_data_analysis.png")
EpaCreateDataAnalysisPlots ==
    /\ pc = "epa_plots"
    /\ trace' = Append(trace, "plots")
    /\ outputs' = outputs \cup {"epa_data_analysis.png"}
    /\ pc' = "epa_static_65plus"
    /\ UNCHANGED <<script, console>>
    /\ UNCHANGED <<censusVars, sensorVars, ingestVars, renderVars, epaVars,
                   fetchVars>>
    /\ UNCHANGED traxVars

\* age_config[age_group]: the columns a map of that age group shows.
age_config(age_group) ==
    IF age_group = "65plus"
    THEN [pct_col |-> "pop_65_plus_pct", count_col |-> "pop_65_plus", label |-> "65+"]
    ELSE [pct_col |-> "pop_85_plus_pct", count_col |-> "pop_85_plus", label |-> "85+"]

\* What one call of create_visualization or create_interactive_map draws:
\* every tract of the merged_gdf it is given, coloured by config's pct_col.
EpaMap(tracts, sites, output_file, age_group) ==
    [output_file |-> output_file, age_group |-> age_group,
     config |-> age_config(age_group), tracts |-> tracts,
     stations |-> Len(sites)]

\* The two calls of create_visualization, age_group "65plus" then "85plus".
EpaCreateVisualization ==
    /\ pc \in {"epa_static_65plus", "epa_static_85plus"}
    /\ LET age_group == IF pc = "epa_static_65plus" THEN "65plus" ELSE "85plus"
           output_file == "epa_age_overlay_map_" \o age_group \o ".png"
       IN  /\ trace' = Append(trace, "static_render_" \o age_group)
           /\ epa_maps' = Append(epa_maps,
                  EpaMap(merged_gdf, epa_sites, output_file, age_group))
           /\ outputs' = outputs \cup {output_file}
    /\ pc' = IF pc = "epa_static_65plus" THEN "epa_static_85plus"
             ELSE "epa_interactive_65plus"
    /\ UNCHANGED <<script, console>>
    /\ UNCHANGED <<epa_csv, df_filtered, epa_sites>>
    /\ UNCHANGED <<censusVars, sensorVars, ingestVars, renderVars, fetchVars>>
    /\ UNCHANGED traxVars

\* The two calls of create_interactive_map, and the closing banner.
EpaCreateInteractiveMap ==
    /\ pc \in {"epa_interactive_65plus", "epa_interactive_85plus"}
    /\ LET age_group == IF pc = "epa_interactive_65plus" THEN "65plus" ELSE "85plus"
           output_file == "epa_interactive_map_" \o age_group \o ".html"
       IN  /\ trace' = Append(trace, "interactive_render_" \o age_group)
           /\ epa_maps' = Append(epa_maps,
                  EpaMap(merged_gdf, epa_sites, output_file, age_group))
           /\ outputs' = outputs \cup {output_file}
    /\ pc' = IF pc = "epa_interactive_65plus" THEN "epa_interactive_85plus"
             ELSE "done"
    /\ console' = IF pc = "epa_interactive_85plus"
                  THEN console \cup {"complete"} ELSE console
    /\ UNCHANGED script
    /\ UNCHANGED <<epa_csv, df_filtered, epa_sites>>
    /\ UNCHANGED <<censusVars, sensorVars, ingestVars, renderVars, fetchVars>>
    /\ UNCHANGED traxVars

-----------------------------------------------------------------------------
(* EPADataAnalysis/get_epa_data.py: the fetcher.  An HTTP response is a    *)
(* record: raises (requests.get or response.json() raises), status_code,   *)
(* and the JSON body's Header and Data lists with has_header and has_data  *)
(* for whether the body has the key.  A value that may be None is None or  *)
(* <<"some", value>>.                                                      *)

DEFAULT_EMAIL == "x"
DEFAULT_KEY   == "x"
STATE_CODE    == "49"
COUNTY_CODES  == <<"035", "011">>
PARAM_CODE    == "88101"
BEGIN_DATE    == "20250101"
END_DATE      == "20251231"

COUNTY_NAMES == [c \in {"035", "011"} |->
                    IF c = "035" THEN "Salt Lake County" ELSE "Davis County"]

\* An environment variable that is set holds <<"str", text>>.
Str(text) == <<"str", text>>

\* os.getenv(name, default)
Getenv(value, default) == IF value = None THEN default ELSE value[2]

\* def load_credentials()
load_credentials(environment) ==
    <<Getenv(environment.EPA_EMAIL, DEFAULT_EMAIL),
      Getenv(environment.EPA_KEY, DEFAULT_KEY)>>

Some(value) == <<"some", value>>

\* json.get("Header", [{}])[0].get("status"): "" stands for the None of an
\* absent key; an empty Header list raises IndexError.
HeaderRaises(resp) == resp.has_header /\ resp.Header = <<>>

HeaderStatus(resp) ==
    IF resp.has_header THEN resp.Header[1].status ELSE ""

\* def verify_credentials(email, key): what it returns for a response; every
\* exception is caught and gives False.
verify_credentials(resp) ==
    /\ ~resp.raises
    /\ resp.status_code = 200
    /\ ~HeaderRaises(resp)
    /\ HeaderStatus(resp) = "Success"

\* A main() that gives up when verification fails, to compare with the code's.
AfterVerify_StopsOnFailure(ok) == IF ok THEN "fetch" ELSE "returned"

\* Where main() goes after verify_credentials: to the fetch in both branches.
AfterVerify(ok) == "fetch"

\* The first lines of main(): load_credentials and the check
\* "if not email or not key".
LoadCredentials ==
    /\ pc = "load_credentials"
    /\ email' = load_credentials(env)[1]
    /\ key' = load_credentials(env)[2]
    /\ console' = console \cup {"using_credentials"}
    /\ pc' = IF load_credentials(env)[1] = "" \/ load_credentials(env)[2] = ""
             THEN "signup" ELSE "verify"
    /\ UNCHANGED <<script, trace, outputs>>
    /\ UNCHANGED <<responses, env, verified, fetch_args, requests, county_idx, all_data,
                   json_data, saved>>
    /\ UNCHANGED <<censusVars, sensorVars, ingestVars, renderVars, epaVars>>
    /\ UNCHANGED traxVars

\* The branch without credentials: input(), signup_for_api(user_email),
\* return.
SignupForApi ==
    /\ pc = "signup"
    /\ \E user_email \in {"", "me@example.com"},
          resp \in {[raises |-> TRUE, status_code |-> 0],
                    [raises |-> FALSE, status_code |-> 200],
                    [raises |-> FALSE, status_code |-> 500]} :
           /\ requests' = Append(requests, [endpoint |-> "signup",
                                            email |-> user_email])
           /\ trace' = Append(trace, "signup")
           /\ pc' = IF resp.raises THEN "crashed" ELSE "returned"
           /\ console' = console \cup {"no_credentials_found"} \cup
                  (IF resp.raises THEN {}
                   ELSE IF resp.status_code = 200
                        THEN {"signup_request_sent", "add_credentials_to_env"}
                        ELSE {"signup_failed"})
    /\ UNCHANGED <<script, outputs>>
    /\ UNCHANGED <<responses, env, email, key, verified, fetch_args, county_idx, all_data,
                   json_data, saved>>
    /\ UNCHANGED <<censusVars, sensorVars, ingestVars, renderVars, epaVars>>
    /\ UNCHANGED traxVars

\* The responses the list/states endpoint may give.
Response(raises, status_code, has_header, header, has_data, data) ==
    [raises |-> raises, status_code |-> status_code, has_header |-> has_header,
     Header |-> header, has_data |-> has_data, Data |-> data]

VerifyResponses ==
    { Response(TRUE, 0, FALSE, <<>>, FALSE, <<>>),
      Response(FALSE, 200, TRUE, <<[status |-> "Success"]>>, TRUE, <<>>),
      Response(FALSE, 200, TRUE, <<[status |-> "Failed"]>>, FALSE, <<>>),
      Response(FALSE, 200, TRUE, <<>>, FALSE, <<>>),
      Response(FALSE, 200, FALSE, <<>>, FALSE, <<>>),
      Response(FALSE, 401, TRUE, <<[status |-> "Success"]>>, FALSE, <<>>) }

\* "Verifying credentials...": the call of verify_credentials and the
\* message of either branch.
VerifyCredentials ==
    /\ pc = "verify"
    /\ \E resp \in VerifyResponses :
           /\ requests' = Append(requests, [endpoint |-> "list/states",
                                            email |-> email, key |-> key])
           /\ verified' = <<verify_credentials(resp)>>
           /\ console' = console
                  \cup (IF resp.raises \/ (resp.status_code = 200 /\ HeaderRaises(resp))
                        THEN {"error_verifying_credentials"} ELSE {})
                  \cup (IF verify_credentials(resp)
                        THEN {"credentials_verified"}
                        ELSE {"warning_could_not_verify"})
           /\ pc' = AfterVerify(verify_credentials(resp))
    /\ trace' = Append(trace, "verify_credentials")
    /\ UNCHANGED <<script, outputs>>
    /\ UNCHANGED <<responses, env, email, key, fetch_args, county_idx, all_data,
                   json_data, saved>>
    /\ UNCHANGED <<censusVars, sensorVars, ingestVars, renderVars, epaVars>>
    /\ UNCHANGED traxVars

\* json_data = fetch_pm25_data(email, key): the call and the lines before
\* the loop.
FetchBegin ==
    /\ pc = "fetch"
    /\ fetch_args' = <<email, key>>
    /\ responses' = <<>>
    /\ all_data' = <<>>
    /\ county_idx' = 1
    /\ trace' = Append(trace, "fetch_pm25_data")
    /\ pc' = "fetch_loop"
    /\ UNCHANGED <<script, console, outputs>>
    /\ UNCHANGED <<env, email, key, verified, requests, json_data, saved>>
    /\ UNCHANGED <<censusVars, sensorVars, ingestVars, renderVars, epaVars>>
    /\ UNCHANGED traxVars

\* The params dict of one request.
Params(args, county_code) ==
    [endpoint |-> "dailyData/byCounty", email |-> args[1], key |-> args[2],
     param |-> PARAM_CODE, bdate |-> BEGIN_DATE, edate |-> END_DATE,
     state |-> STATE_CODE, county |-> county_code]

\* record['county_name'] = county_name
WithCounty(record, county_name) ==
    [c \in DOMAIN record \cup {"county_name"} |->
        IF c = "county_name" THEN county_name ELSE record[c]]

\* json_data.get("Data", [])
DataOf(resp) == IF resp.has_data THEN resp.Data ELSE <<>>

\* The body of the for loop raises where nothing catches: in requests.get,
\* in response.json() and in [0] of an empty Header list.
FetchRaises(resp) ==
    resp.raises \/ (resp.status_code = 200 /\ HeaderRaises(resp))

\* An API record with the expected columns and one without any of them.
FullRecord(site, day, mean) ==
    [site_number |-> site, local_site_name |-> "Hawthorne", latitude |-> 407,
     longitude |-> -1119, date_local |-> day, arithmetic_mean |-> mean,
     state_code |-> "49"]

BareRecord == [state_code |-> "49", aqi |-> 30]

\* The responses the dailyData/byCounty endpoint may give.
FetchResponses ==
    { Response(TRUE, 0, FALSE, <<>>, FALSE, <<>>),
      Response(FALSE, 500, FALSE, <<>>, FALSE, <<>>),
      Response(FALSE, 200, TRUE, <<[status |-> "No data matched your selection"]>>,
               TRUE, <<>>),
      Response(FALSE, 200, FALSE, <<>>, FALSE, <<>>),
      Response(FALSE, 200, TRUE, <<>>, TRUE,
               <<FullRecord("3006", "2025-01-15", 80)>>),
      Response(FALSE, 200, TRUE, <<[status |-> "Success"]>>, TRUE,
               <<FullRecord("3006", "2025-01-15", 80),
                 FullRecord("3006", "2025-01-16", 400)>>),
      Response(FALSE, 200, TRUE, <<[status |-> "Success"]>>, TRUE,
               <<BareRecord>>) }

\* A loop that asks again for a county whose request failed, to compare
\* with the code's.
NextCounty_RetriesFailure(i, status_code) ==
    IF status_code = 200 THEN i + 1 ELSE i

\* "for county_code in COUNTY_CODES": the next county, whatever the status.
NextCounty(i, status_code) == i + 1

\* One iteration of "for county_code in COUNTY_CODES".
FetchCounty ==
    /\ pc = "fetch_loop"
    /\ county_idx <= Len(COUNTY_CODES)
    /\ \E resp \in FetchResponses :
           LET county_code == COUNTY_CODES[county_idx]
               data == DataOf(resp)
           IN  /\ requests' = Append(requests, Params(fetch_args, county_code))
               /\ county_idx' = NextCounty(county_idx, resp.status_code)
               /\ IF FetchRaises(resp)
                  THEN /\ pc' = "crashed"
                       /\ UNCHANGED <<all_data, console, responses>>
                  ELSE /\ pc' = pc
                       /\ responses' = Append(responses, resp)
                       /\ all_data' =
                              IF resp.status_code = 200
                              THEN all_data \o
                                   [i \in 1..Len(data) |->
                                       WithCounty(data[i], COUNTY_NAMES[county_code])]
                              ELSE all_data
                       /\ console' = IF resp.status_code = 200 THEN console
                                     ELSE console \cup {"api_request_failed"}
    /\ UNCHANGED <<script, trace, outputs>>
    /\ UNCHANGED <<env, email, key, verified, fetch_args, json_data, saved>>
    /\ UNCHANGED <<censusVars, sensorVars, ingestVars, renderVars, epaVars>>
    /\ UNCHANGED traxVars

\* A fetch_pm25_data that returns the dict whether or not it holds a record,
\* to compare with the code's.
FetchResult_WithoutCheck(data) ==
    Some([Data |-> data,
          Header |-> <<[status |-> "Success", rows |-> Len(data)]>>])

\* What fetch_pm25_data returns after the loop.
FetchResult(data) ==
    IF data # <<>>
    THEN Some([Data |-> data,
               Header |-> <<[status |-> "Success", rows |-> Len(data)]>>])
    ELSE None

\* The return of fetch_pm25_data and main()'s "if json_data: ... else".
FetchReturn ==
    /\ pc = "fetch_loop"
    /\ county_idx > Len(COUNTY_CODES)
    /\ json_data' = FetchResult(all_data)
    /\ IF FetchResult(all_data) # None
       THEN /\ pc' = "save"
            /\ console' = console
       ELSE /\ pc' = "returned"
            /\ console' = console \cup {"failed_to_fetch_data"}
    /\ UNCHANGED <<script, trace, outputs>>
    /\ UNCHANGED <<responses, env, email, key, verified, fetch_args, requests, county_idx,
                   all_data, saved>>
    /\ UNCHANGED <<censusVars, sensorVars, ingestVars, renderVars, epaVars>>
    /\ UNCHANGED traxVars

columns_to_keep == <<"county_name", "site_number", "local_site_name",
                     "latitude", "longitude", "date_local", "arithmetic_mean">>

\* pd.DataFrame(data).columns: every key of every record.
ColumnsOf(data) == UNION {DOMAIN data[i] : i \in 1..Len(data)}

\* A cell of the frame: NaN where the record lacks the key.
Cell(record, c) == IF c \in DOMAIN record THEN record[c] ELSE NaN

\* A rename that leaves arithmetic_mean as it is, to compare with the code's.
Renamed_KeepsName(c) == c

\* rename(columns={"arithmetic_mean": "pm25_value"})
Renamed(c) == IF c = "arithmetic_mean" THEN "pm25_value" ELSE c

\* def process_and_save_data(json_data, output_file): the frame it writes
\* and returns, None when there is nothing to process.
process_and_save_data(json) ==
    IF json = None THEN None
    ELSE IF json[2].Data = <<>> THEN None
    ELSE LET data == json[2].Data
             available == SelectSeq(columns_to_keep,
                                    LAMBDA c : c \in ColumnsOf(data))
         IN  IF available = <<>>
             THEN Some([columns |-> ColumnsOf(data),
                        rows |-> [i \in 1..Len(data) |->
                                     [c \in ColumnsOf(data) |-> Cell(data[i], c)]]])
             ELSE Some([columns |-> {Renamed(available[k]) : k \in 1..Len(available)},
                   rows |-> [i \in 1..Len(data) |->
                                [c \in {Renamed(available[k]) : k \in 1..Len(available)} |->
                                    IF c = "pm25_value"
                                    THEN Cell(data[i], "arithmetic_mean")
                                    ELSE Cell(data[i], c)]]])

\* df = process_and_save_data(json_data, output_path) and the summary.
ProcessAndSaveData ==
    /\ pc = "save"
    /\ saved' = process_and_save_data(json_data)
    /\ trace' = Append(trace, "process_and_save_data")
    /\ outputs' = IF process_and_save_data(json_data) = None THEN outputs
                  ELSE outputs \cup {"epa_utah_data.csv"}
    /\ console' = console \cup
           (IF process_and_save_data(json_data) = None
            THEN {"no_data_retrieved"} ELSE {"data_saved", "data_summary"})
    /\ pc' = "done"
    /\ UNCHANGED script
    /\ UNCHANGED <<responses, env, email, key, verified, fetch_args, requests, county_idx,
                   all_data, json_data>>
    /\ UNCHANGED <<censusVars, sensorVars, ingestVars, renderVars, epaVars>>
    /\ UNCHANGED traxVars

-----------------------------------------------------------------------------
(* Inputs of the sensor ingestion *)

MaxFiles == 2

\* " J1 J9 1h A.csv": start date, end date, interval, "Average.csv"
DatedSuffix == <<" ", "J", "1", " ", "J", "9", " ", "1", "h", " ",
                 "A", ".", "c", "s", "v">>

Name101   == <<"1", "0", "1">> \o DatedSuffix
Name102   == <<"1", "0", "2">> \o DatedSuffix
Name103   == <<"1", "0", "3">> \o DatedSuffix
Name999   == <<"9", "9", "9">> \o DatedSuffix
NameAbc   == <<"a", "b", "c">> \o DatedSuffix
NameBare  == <<"1", "0", "1", ".", "c", "s", "v">>
NameShort == <<"0", "1", "0", "2", " ", "J", "1", " ", "A", ".", "c", "s", "v">>

\* A file whose pm2.5_cf_1 column is numeric and holds col.
Table(name, col) ==
    [name |-> name, readable |-> TRUE, columns |-> {"time_stamp", PM_COLUMN},
     dtype |-> "float", pm |-> col]

SensorFiles ==
    { Table(Name101, <<Num(400)>>),                 \* mean 40.0
      Table(Name102, <<Num(300), Num(500)>>),       \* mean 40.0
      Table(Name102, <<Num(100)>>),                 \* mean 10.0
      Table(Name101, <<NaN, Num(500)>>),            \* mean 50.0
      Table(Name101, <<Num(6392)>>),                \* corrected 499.9476
      Table(Name102, <<Num(6393)>>),                \* corrected 500.0254
      Table(Name101, <<NaN>>),                      \* no valid entry
      [name |-> Name101, readable |-> TRUE, columns |-> {"time_stamp"},
       dtype |-> "float", pm |-> <<>>],             \* no pm2.5_cf_1 column
      [name |-> Name102, readable |-> FALSE, columns |-> {},
       dtype |-> "float", pm |-> <<>>],             \* read_csv raises
      [name |-> Name101, readable |-> TRUE, columns |-> {"time_stamp", PM_COLUMN},
       dtype |-> "object", pm |-> <<>>],            \* a text column: mean() raises
      Table(NameAbc, <<Num(400)>>),                 \* id not an integer
      Table(NameBare, <<Num(400)>>),                \* one token, "101.csv"
      Table(Name103, <<Num(100)>>),                 \* a sensor that may lack a latitude
      Table(NameShort, <<Num(200)>>) }              \* three tokens, id 0102

SensorRow(id, lat, lon) ==
    [sensor_index |-> id, latitude |-> lat, longitude |-> lon]

Row101 == SensorRow(Num(101), Num(40), Num(-111))
Row102 == SensorRow(Num(102), Num(41), Num(-112))

SensorLists ==
    { [exists |-> TRUE,  rows |-> <<Row101, Row102>>],
      [exists |-> TRUE,  rows |-> <<Row101, Row102,
                                    SensorRow(Num(103), NaN, Num(-112))>>],
      [exists |-> TRUE,  rows |-> <<Row101, SensorRow(Num(101), Num(41), Num(-112))>>],
      [exists |-> TRUE,  rows |-> <<>>],
      [exists |-> TRUE,  rows |-> <<Row101, SensorRow(NaN, Num(41), Num(-112))>>],
      [exists |-> FALSE, rows |-> <<>>] }

\* The sequences over S of length at most n.
RECURSIVE SeqsUpTo(_, _)
SeqsUpTo(S, n) ==
    IF n = 0 THEN {<<>>}
    ELSE LET shorter == SeqsUpTo(S, n - 1)
         IN  shorter \cup {Append(q, x) : q \in {r \in shorter : Len(r) = n - 1}, x \in S}

\* Nothing loaded, nothing computed, nothing rendered yet.
NoCensus ==
    /\ gdf = <<>>
    /\ census_df = <<>>
    /\ merged_gdf = <<>>
    /\ area_95th = NaN

NoIngest ==
    /\ csv_files = <<>>
    /\ total_files = 0
    /\ date_range_info = [start_date |-> None, end_date |-> None,
                          interval |-> DefaultInterval]
    /\ idx = 0
    /\ air_data = <<>>
    /\ processed = 0
    /\ skipped = 0
    /\ outliers = 0
    /\ air_df = <<>>

NoRender ==
    /\ plots = <<>>
    /\ markers = <<>>
    /\ legend = <<>>
    /\ grid = <<>>
    /\ image = <<>>
    /\ summary = <<>>

NoEpa ==
    /\ df_filtered = <<>>
    /\ epa_sites = <<>>
    /\ epa_maps = <<>>

NoFetch ==
    /\ email = None
    /\ key = None
    /\ verified = <<>>
    /\ fetch_args = None
    /\ requests = <<>>
    /\ responses = <<>>
    /\ county_idx = 0
    /\ all_data = <<>>
    /\ json_data = None
    /\ saved = None

\* The scripts that are not running: no EPA file read, no environment used.
NoEpaRun ==
    /\ epa_csv = [exists |-> FALSE, columns |-> {}, rows |-> <<>>]
    /\ NoEpa

NoTrax ==
    /\ trax_requests = <<>>
    /\ var_idx = 0
    /\ process_calls = <<>>
    /\ trax_csv = <<>>

NoFetchRun ==
    /\ env = [EPA_EMAIL |-> None, EPA_KEY |-> None]
    /\ NoFetch
    /\ NoTrax

\* process_purpleair_data with load_sensor_locations before it, on every
\* directory of at most MaxFiles sample files.
InitIngest ==
    /\ script \in {"main", "analysis"}
    /\ pc = "load_sensors"
    /\ trace = <<>>
    /\ console = {}
    /\ outputs = {}
    /\ shp = [exists |-> FALSE, tracts |-> <<>>, box |-> CountyBox]
    /\ acs = [exists |-> FALSE, rows |-> <<>>]
    /\ NoCensus
    /\ sensor_csv \in SensorLists
    /\ sensor_lookup = <<>>
    /\ purpleair_dir \in SeqsUpTo(SensorFiles, MaxFiles)
    /\ NoIngest
    /\ NoRender
    /\ NoEpaRun
    /\ NoFetchRun

NextIngest ==
    \/ LoadSensorLocations
    \/ IngestBegin
    \/ IngestFile
    \/ IngestReturn

SpecIngest == InitIngest /\ [][NextIngest]_vars

-----------------------------------------------------------------------------
(* Inputs of the census merge *)

MaxTracts == 2

\* The tracts that may occur, in file order; the last lies in Utah County.
TractIds == << <<"49035", "110100">>, <<"49035", "980000">>,
               <<"49011", "125100">>, <<"49035", "101400">>,
               <<"49049", "000100">> >>

AreaSamples == {1, 3}

\* One ACS row: the total, the 65-66 brackets (the other brackets below 80
\* are zero), and the 80-84 and 85+ brackets of men and women.
AcsRow(geo_id, total, m65, m80, m85, f65, f80, f85) ==
    [GEO_ID |-> geo_id, B01001_001E |-> total,
     B01001_020E |-> m65, B01001_021E |-> Num(0), B01001_022E |-> Num(0),
     B01001_023E |-> Num(0), B01001_024E |-> m80, B01001_025E |-> m85,
     B01001_044E |-> f65, B01001_045E |-> Num(0), B01001_046E |-> Num(0),
     B01001_047E |-> Num(0), B01001_048E |-> f80, B01001_049E |-> f85]

Text == <<"text", 0>>

\* The sample rows of tract g: nobody in any band; 4 aged 80+; exactly 10
\* aged 80+ and nobody 85+; 25 aged 80+; text entries and a text total;
\* only people aged 65-66; a county-level row, whose prefix is another.
AcsSamples(g) ==
    LET id == <<GEO_PREFIX>> \o g
    IN  { AcsRow(id, Num(1000), Num(0), Num(0), Num(0), Num(0), Num(0), Num(0)),
          AcsRow(id, Num(2000), Num(2), Num(3), Num(0), Num(0), Num(0), Num(1)),
          AcsRow(id, Num(500), Num(0), Num(6), Num(0), Num(0), Num(4), Num(0)),
          AcsRow(id, Num(4000), Num(40), Num(10), Num(5), Num(0), Num(8), Num(2)),
          AcsRow(id, Text, Num(0), Num(0), Text, NaN, Num(12), Num(0)),
          AcsRow(id, Num(0), Num(30), Num(0), Num(0), Num(0), Num(0), Num(0)),
          AcsRow(<<"0500000US">> \o g, Num(9000), Num(0), Num(50), Num(0),
                 Num(0), Num(0), Num(0)) }

\* The tract lists over the first n ids, each id absent or present once.
RECURSIVE TractLists(_)
TractLists(n) ==
    IF n = 0 THEN {<<>>}
    ELSE LET shorter == TractLists(n - 1)
         IN  shorter \cup
             {Append(q, [GEOID |-> TractIds[n], area |-> a]) :
                  q \in shorter, a \in AreaSamples}

RECURSIVE AcsTables(_)
AcsTables(n) ==
    IF n = 0 THEN {<<>>}
    ELSE LET shorter == AcsTables(n - 1)
         IN  shorter \cup
             UNION {{Append(q, row) : row \in AcsSamples(TractIds[n])} : q \in shorter}

OutOfCounty == [GEOID |-> TractIds[Len(TractIds)], area |-> 3]

Shapefiles ==
    {[exists |-> TRUE, tracts |-> q, box |-> CountyBox] : q \in TractLists(MaxTracts)}
    \cup {[exists |-> TRUE, tracts |-> <<OutOfCounty>> \o q, box |-> CountyBox] :
              q \in TractLists(1)}
    \cup {[exists |-> FALSE, tracts |-> <<>>, box |-> CountyBox]}

AcsFiles ==
    {[exists |-> TRUE, rows |-> q] : q \in AcsTables(MaxTracts)}
    \cup {[exists |-> FALSE, rows |-> <<>>]}

\* Steps A and B of either main.py, on every sample shapefile and ACS table.
InitCensus ==
    /\ script \in {"main", "epa"}
    /\ pc = "load_shapefile"
    /\ trace = <<>>
    /\ console = {}
    /\ outputs = {}
    /\ shp \in Shapefiles
    /\ acs \in AcsFiles
    /\ NoCensus
    /\ sensor_csv = [exists |-> FALSE, rows |-> <<>>]
    /\ sensor_lookup = <<>>
    /\ purpleair_dir = <<>>
    /\ NoIngest
    /\ NoRender
    /\ NoEpaRun
    /\ NoFetchRun

NextCensus ==
    \/ LoadAndFilterShapefile
    \/ ProcessCensusData
    \/ MergeGeoAndCensus

SpecCensus == InitCensus /\ [][NextCensus]_vars

-----------------------------------------------------------------------------
(* The PurpleAir pipeline, main() of main.py and of purpleair_analysis.py  *)

PipelineShapefiles ==
    { [exists |-> FALSE, tracts |-> <<>>, box |-> CountyBox],
      [exists |-> TRUE,  tracts |-> <<[GEOID |-> TractIds[1], area |-> 1]>>,
       box |-> CountyBox],
      [exists |-> TRUE,  tracts |-> <<[GEOID |-> TractIds[1], area |-> 1],
                                      [GEOID |-> TractIds[3], area |-> 3]>>,
       box |-> CountyBox] }

PipelineAcsFiles ==
    { [exists |-> FALSE, rows |-> <<>>],
      [exists |-> TRUE,  rows |->
          <<AcsRow(<<GEO_PREFIX>> \o TractIds[1], Num(4000), Num(40), Num(10),
                   Num(5), Num(0), Num(8), Num(2)),
            AcsRow(<<GEO_PREFIX>> \o TractIds[3], Num(2000), Num(2), Num(3),
                   Num(0), Num(0), Num(0), Num(1))>>] }

MaxPipelineFiles == 3

Name104 == <<"1", "0", "4">> \o DatedSuffix

PipelineFiles ==
    { Table(Name101, <<Num(400)>>),
      Table(Name102, <<Num(100)>>),
      Table(Name102, <<Num(6393)>>),
      Table(Name104, <<Num(200)>>),
      Table(Name999, <<Num(400)>>) }

\* Three sensors that span a triangle, or no list at all.
PipelineSensorLists ==
    { [exists |-> TRUE,  rows |-> <<Row101, Row102,
                                    SensorRow(Num(104), Num(40), Num(-113))>>],
      [exists |-> FALSE, rows |-> <<>>] }

Init ==
    /\ script \in {"main", "analysis"}
    /\ pc = "load_shapefile"
    /\ trace = <<>>
    /\ console = {}
    /\ outputs = {}
    /\ shp \in PipelineShapefiles
    /\ acs \in PipelineAcsFiles
    /\ NoCensus
    /\ sensor_csv \in PipelineSensorLists
    /\ sensor_lookup = <<>>
    /\ purpleair_dir \in SeqsUpTo(PipelineFiles, MaxPipelineFiles)
    /\ NoIngest
    /\ NoRender
    /\ NoEpaRun
    /\ NoFetchRun

Next ==
    \/ LoadAndFilterShapefile
    \/ ProcessCensusData
    \/ MergeGeoAndCensus
    \/ LoadSensorLocations
    \/ IngestBegin
    \/ IngestFile
    \/ IngestReturn
    \/ CheckEmpty
    \/ CreateDataAnalysisPlots
    \/ CreatePm25Heatmap
    \/ CreateVisualization
    \/ CreateInteractiveMap

Spec == Init /\ [][Next]_vars

-----------------------------------------------------------------------------
(* Steps C.5 to F of main.py on given readings.  A corrected value is a    *)
(* float and every float near a band limit is 0.778 * m + 2.65 for some    *)
(* float mean m (41.580976863753214 gives exactly 35.0), so the readings   *)
(* are drawn from values on and beside the limits.                         *)

MaxSensors == 3

Pm25Samples == {11999999, 12000000, 12000001, 33770000,
                34999999, 35000000, 35000001}

\* The sensors lie on a curve, so that any three of them span a triangle.
SensorAt(i, v) ==
    [lat |-> Num(40 + i), lon |-> Num(-111 - i * i), pm25 |-> v, sensor_id |-> 100 + i]

RECURSIVE ReadingLists(_)
ReadingLists(n) ==
    IF n = 0 THEN {<<>>}
    ELSE LET shorter == ReadingLists(n - 1)
         IN  shorter \cup
             {Append(q, SensorAt(n, v)) :
                  q \in {r \in shorter : Len(r) = n - 1}, v \in Pm25Samples}

InitRender ==
    /\ script = "main"
    /\ pc = "check_empty"
    /\ trace = <<>>
    /\ console = {}
    /\ outputs = {}
    /\ shp = [exists |-> FALSE, tracts |-> <<>>, box |-> CountyBox]
    /\ acs = [exists |-> FALSE, rows |-> <<>>]
    /\ NoCensus
    /\ sensor_csv = [exists |-> FALSE, rows |-> <<>>]
    /\ sensor_lookup = <<>>
    /\ purpleair_dir = <<>>
    /\ csv_files = <<>>
    /\ total_files = 0
    /\ date_range_info = [start_date |-> None, end_date |-> None,
                          interval |-> DefaultInterval]
    /\ idx = 0
    /\ processed = 0
    /\ skipped = 0
    /\ outliers = 0
    /\ air_df \in ReadingLists(MaxSensors)
    /\ air_data = air_df
    /\ NoRender
    /\ NoEpaRun
    /\ NoFetchRun

NextRender ==
    \/ CheckEmpty
    \/ CreateDataAnalysisPlots
    \/ CreatePm25Heatmap
    \/ CreateVisualization
    \/ CreateInteractiveMap

SpecRender == InitRender /\ [][NextRender]_vars

-----------------------------------------------------------------------------
(* create_pm25_heatmap and the image layer of create_visualization, for    *)
(* small resolutions                                                       *)

MaxPoints == 3

MaxResolution == 3

GridPoint(id, lat, lon, v) ==
    [lat |-> lat, lon |-> lon, pm25 |-> v, sensor_id |-> id]

\* Five sensors of which three lie on a line, and one without a latitude.
GridPoints ==
    { GridPoint(201, Num(40), Num(-114), 10000000),
      GridPoint(202, Num(40), Num(-110), 20000000),
      GridPoint(203, Num(44), Num(-114), 30000000),
      GridPoint(204, Num(43), Num(-111), 40000000),
      GridPoint(205, Num(41), Num(-113), 12000000),
      GridPoint(206, NaN, Num(-112), 12000000) }

\* The box of the points, and a box that reaches beyond them.
GridBoxes == {CountyBox, <<-116, 38, -108, 46>>}

\* The tracts main.py keeps of a one-tract county.
KeptTracts ==
    LET table == CHOOSE f \in PipelineAcsFiles : f.exists
    IN  MergeResult(<<[GEOID |-> TractIds[1], area |-> 1]>>,
                    [i \in 1..Len(table.rows) |-> CensusRow(table.rows[i], "main")],
                    "main")

InitGrid ==
    /\ script = "main"
    /\ pc = "heatmap"
    /\ trace = <<>>
    /\ console = {}
    /\ outputs = {}
    /\ \E b \in GridBoxes : shp = [exists |-> TRUE, tracts |-> <<>>, box |-> b]
    /\ acs = [exists |-> FALSE, rows |-> <<>>]
    /\ gdf = <<>>
    /\ census_df = <<>>
    /\ merged_gdf \in {<<>>, KeptTracts}
    /\ area_95th = 0
    /\ sensor_csv = [exists |-> FALSE, rows |-> <<>>]
    /\ sensor_lookup = <<>>
    /\ purpleair_dir = <<>>
    /\ csv_files = <<>>
    /\ total_files = 0
    /\ date_range_info = [start_date |-> None, end_date |-> None,
                          interval |-> DefaultInterval]
    /\ idx = 0
    /\ processed = 0
    /\ skipped = 0
    /\ outliers = 0
    /\ air_df \in SeqsUpTo(GridPoints, MaxPoints) \ {<<>>}
    /\ air_data = air_df
    /\ NoRender
    /\ NoEpaRun
    /\ NoFetchRun

\* create_pm25_heatmap called with a resolution other than the default
ApplyCreatePm25Heatmap == \E resolution \in 2..MaxResolution : Heatmap(resolution)

NextGrid ==
    \/ ApplyCreatePm25Heatmap
    \/ CreateVisualization
    \/ CreateInteractiveMap

SpecGrid == InitGrid /\ [][NextGrid]_vars

-----------------------------------------------------------------------------
(* The EPA pipeline, main() of EPADataAnalysis/main.py *)

MaxRecords == 2

Date(y, m, d) == <<"date", y, m, d>>

\* The day before the window, its first and last day, the day after, a day
\* of the next year, a missing cell and a cell that is no date.
DateSamples == {Date(2024, 12, 31), Date(2025, 1, 1), Date(2025, 1, 30),
                Date(2025, 1, 31), Date(2026, 1, 15), NaN, Text}

EpaRecord(number, name, lat, date, value) ==
    [site_number |-> number, local_site_name |-> name, latitude |-> lat,
     longitude |-> Num(-1119), date_local |-> date, pm25_value |-> value]

\* Two stations, and a record whose latitude is missing.
EpaRecords ==
    {EpaRecord(Num(3006), <<"text", "Hawthorne">>, Num(407), d, v) :
         d \in DateSamples, v \in {Num(80), Num(400)}}
    \cup {EpaRecord(Num(4), <<"text", "Bountiful">>, Num(409), d, Num(120)) :
              d \in DateSamples}
    \cup {EpaRecord(Num(3010), <<"text", "Rose Park">>, NaN, d, NaN) :
              d \in {Date(2025, 1, 1), Date(2026, 1, 15)}}

EpaFiles ==
    {[exists |-> TRUE, columns |-> EpaColumns \cup {"county_name"}, rows |-> q] :
         q \in SeqsUpTo(EpaRecords, MaxRecords)}
    \cup {[exists |-> TRUE, columns |-> EpaColumns \ {"pm25_value"}, rows |-> <<>>],
          [exists |-> FALSE, columns |-> {}, rows |-> <<>>]}

\* Two ACS tables: in the first both tracts have residents aged 85+, in the
\* second one tract has 30 residents aged 65-66 and nobody older.
EpaAcsFiles ==
    { [exists |-> TRUE, rows |->
          <<AcsRow(<<GEO_PREFIX>> \o TractIds[1], Num(4000), Num(40), Num(10),
                   Num(5), Num(0), Num(8), Num(2)),
            AcsRow(<<GEO_PREFIX>> \o TractIds[3], Num(2000), Num(2), Num(3),
                   Num(0), Num(0), Num(0), Num(1))>>],
      [exists |-> TRUE, rows |->
          <<AcsRow(<<GEO_PREFIX>> \o TractIds[1], Num(4000), Num(40), Num(10),
                   Num(5), Num(0), Num(8), Num(2)),
            AcsRow(<<GEO_PREFIX>> \o TractIds[3], Num(900), Num(30), Num(0),
                   Num(0), Num(0), Num(0), Num(0))>>] }

InitEPA ==
    /\ script = "epa"
    /\ pc = "load_shapefile"
    /\ trace = <<>>
    /\ console = {}
    /\ outputs = {}
    /\ shp = [exists |-> TRUE,
              tracts |-> <<[GEOID |-> TractIds[1], area |-> 1],
                           [GEOID |-> TractIds[3], area |-> 3]>>,
              box |-> CountyBox]
    /\ acs \in EpaAcsFiles
    /\ NoCensus
    /\ sensor_csv = [exists |-> FALSE, rows |-> <<>>]
    /\ sensor_lookup = <<>>
    /\ purpleair_dir = <<>>
    /\ NoIngest
    /\ NoRender
    /\ epa_csv \in EpaFiles
    /\ NoEpa
    /\ NoFetchRun

NextEPA ==
    \/ LoadAndFilterShapefile
    \/ ProcessCensusData
    \/ MergeGeoAndCensus
    \/ ProcessEpaData
    \/ CheckEpaSites
    \/ EpaCreateDataAnalysisPlots
    \/ EpaCreateVisualization
    \/ EpaCreateInteractiveMap

SpecEPA == InitEPA /\ [][NextEPA]_vars

-----------------------------------------------------------------------------
(* The fetcher, main() of get_epa_data.py *)

\* A variable unset, set to the empty string, or set.
EmailSamples == {None, Str(""), Str("me@example.com")}
KeySamples   == {None, Str(""), Str("tealram42")}

InitFetch ==
    /\ script = "fetch"
    /\ pc = "load_credentials"
    /\ trace = <<>>
    /\ console = {}
    /\ outputs = {}
    /\ shp = [exists |-> FALSE, tracts |-> <<>>, box |-> CountyBox]
    /\ acs = [exists |-> FALSE, rows |-> <<>>]
    /\ NoCensus
    /\ sensor_csv = [exists |-> FALSE, rows |-> <<>>]
    /\ sensor_lookup = <<>>
    /\ purpleair_dir = <<>>
    /\ NoIngest
    /\ NoRender
    /\ NoEpaRun
    /\ env \in [EPA_EMAIL : EmailSamples, EPA_KEY : KeySamples]
    /\ NoFetch
    /\ NoTrax

NextFetch ==
    \/ LoadCredentials
    \/ SignupForApi
    \/ VerifyCredentials
    \/ FetchBegin
    \/ FetchCounty
    \/ FetchReturn
    \/ ProcessAndSaveData

SpecFetch == InitFetch /\ [][NextFetch]_vars

-----------------------------------------------------------------------------
(* process_and_save_data of get_epa_data.py on its own, for every response *)
(* dict of at most MaxSaveRecords records                                  *)

MaxSaveRecords == 2

\* Records with all the expected columns, with some of them, with none.
SaveRecords ==
    { WithCounty(FullRecord("3006", "2025-01-15", 80), "Salt Lake County"),
      WithCounty(FullRecord("0004", "2025-01-16", 400), "Davis County"),
      FullRecord("3006", "2025-01-15", 80),
      BareRecord,
      WithCounty(BareRecord, "Davis County"),
      [latitude |-> 407, arithmetic_mean |-> 80],
      [site_number |-> "3006", date_local |-> "2025-01-15", aqi |-> 30] }

\* None, and the dicts with a Header and a Data list.
SaveInputs ==
    {None} \cup
    {Some([Data |-> d, Header |-> <<[status |-> "Success", rows |-> Len(d)]>>]) :
         d \in SeqsUpTo(SaveRecords, MaxSaveRecords)}

InitSave ==
    /\ script = "fetch"
    /\ pc = "process_and_save_data"
    /\ trace = <<>>
    /\ console = {}
    /\ outputs = {}
    /\ shp = [exists |-> FALSE, tracts |-> <<>>, box |-> CountyBox]
    /\ acs = [exists |-> FALSE, rows |-> <<>>]
    /\ NoCensus
    /\ sensor_csv = [exists |-> FALSE, rows |-> <<>>]
    /\ sensor_lookup = <<>>
    /\ purpleair_dir = <<>>
    /\ NoIngest
    /\ NoRender
    /\ NoEpaRun
    /\ env = [EPA_EMAIL |-> None, EPA_KEY |-> None]
    /\ email = None
    /\ key = None
    /\ verified = <<>>
    /\ fetch_args = None
    /\ requests = <<>>
    /\ responses = <<>>
    /\ county_idx = 0
    /\ all_data = <<>>
    /\ json_data \in SaveInputs
    /\ saved = None
    /\ NoTrax

\* process_and_save_data(json_data, "epa_utah_data.csv"): what it prints,
\* writes and returns
ApplyProcessAndSaveData ==
    /\ pc = "process_and_save_data"
    /\ saved' = process_and_save_data(json_data)
    /\ trace' = Append(trace, "process_and_save_data")
    /\ outputs' = IF process_and_save_data(json_data) = None THEN outputs
                  ELSE outputs \cup {"epa_utah_data.csv"}
    /\ console' = console \cup
           (IF json_data = None THEN {"no_data_to_process"}
            ELSE IF json_data[2].Data = <<>> THEN {"no_data_records_found"}
            ELSE IF \A k \in 1..Len(columns_to_keep) :
                        columns_to_keep[k] \notin ColumnsOf(json_data[2].Data)
                 THEN {"none_of_the_expected_columns_found"}
                 ELSE {"data_saved"})
    /\ pc' = "done"
    /\ UNCHANGED script
    /\ UNCHANGED <<responses, env, email, key, verified, fetch_args, requests, county_idx,
                   all_data, json_data>>
    /\ UNCHANGED <<censusVars, sensorVars, ingestVars, renderVars, epaVars>>
    /\ UNCHANGED traxVars

NextSave == ApplyProcessAndSaveData

SpecSave == InitSave /\ [][NextSave]_vars

-----------------------------------------------------------------------------
(* TraxDataAnalsysis/sensorDataFinder.py.  A key of a JSON object is the   *)
(* sequence of its characters; an object is the sequence of its            *)
(* <<key, value>> entries in the order of the document; null is None.      *)

KeyDateTime  == <<"d", "a", "t", "e", "_", "t", "i", "m", "e">>
KeyPosition  == <<"p", "o", "s", "i", "t", "i", "o", "n">>
KeyLatitude  == <<"l", "a", "t", "i", "t", "u", "d", "e">>
KeyLongitude == <<"l", "o", "n", "g", "i", "t", "u", "d", "e">>

\* pm25_vars of fetch_trax_history
pm25_vars == <<<<"P", "M", "_", "2", "5">>,
              <<"P", "M", "2", "5">>,
              <<"p", "m", "2", "5">>,
              <<"P", "M", "2", "5", "_", "c", "o", "n", "c", "e", "n", "t", "r", "a", "t", "i", "o", "n", "_", "s", "e", "t", "_", "1">>,
              <<"P", "M", "2", "5", "_", "Q", "C">>,
              <<"p", "m", "2", "5", "_", "c", "o", "n", "c", "e", "n", "t", "r", "a", "t", "i", "o", "n">>>>

\* str.lower() on the letters the keys here are made of
LowerChar(ch) ==
    CASE ch = "P" -> "p" [] ch = "M" -> "m" [] ch = "Q" -> "q" [] ch = "C" -> "c"
      [] OTHER -> ch

Lower(k) == [i \in 1..Len(k) |-> LowerChar(k[i])]

\* sub in text
Contains(sub, text) ==
    \E i \in 0..(Len(text) - Len(sub)) : SubSeq(text, i + 1, i + Len(sub)) = sub

\* 'pm' in k.lower() or '25' in k.lower()
LooksLikePm(k) == Contains(<<"p", "m">>, Lower(k)) \/ Contains(<<"2", "5">>, Lower(k))

\* 'pm25' in k.lower() or 'pm_25' in k.lower()
NamesPm25(k) ==
    \/ Contains(<<"p", "m", "2", "5">>, Lower(k))
    \/ Contains(<<"p", "m", "_", "2", "5">>, Lower(k))

\* key in obs, and obs[key]
HasKey(obs, k) == \E e \in 1..Len(obs) : obs[e][1] = k

Get(obs, k) == obs[CHOOSE e \in 1..Len(obs) : obs[e][1] = k][2]

\* list(obs.keys())
Keys(obs) == [e \in 1..Len(obs) |-> obs[e][1]]

\* A station attribute that the document does not have.
Absent == <<"absent">>

\* A position entry [lat, lon] of the document.
Pair(lat, lon) == <<"list", <<lat, lon>>>>

\* p[0] if isinstance(p, (list, tuple)) and len(p) > 0 else None (n = 1), and
\* the same for p[1] (n = 2)
Coordinate(p, n) ==
    IF p[1] = "list" /\ Len(p[2]) >= n THEN p[2][n] ELSE None

\* float(station.get('LATITUDE', 0)) raises on a null
FloatRaises(v) == v = None

Float(v) == IF v = Absent THEN Num(0) ELSE v

\* Which of the three sources the coordinates of a station come from.
PositionSource(obs) ==
    IF HasKey(obs, KeyPosition) THEN "position"
    ELSE IF HasKey(obs, KeyLatitude) /\ HasKey(obs, KeyLongitude) THEN "arrays"
    ELSE "static"

\* lats and lons of one station, n = 1 for lats and 2 for lons
Coordinates(station, n) ==
    LET obs   == station.OBSERVATIONS
        times == Get(obs, KeyDateTime)
    IN  CASE PositionSource(obs) = "position" ->
                 [i \in 1..Len(Get(obs, KeyPosition)) |->
                     Coordinate(Get(obs, KeyPosition)[i], n)]
          [] PositionSource(obs) = "arrays" ->
                 Get(obs, IF n = 1 THEN KeyLatitude ELSE KeyLongitude)
          [] OTHER ->
                 [i \in 1..Len(times) |->
                     Float(IF n = 1 THEN station.LATITUDE ELSE station.LONGITUDE)]

\* pm_key: the given variable when the station has it, else the first key
\* that names pm25, else None
PmKey(obs, pm25_var) ==
    IF HasKey(obs, pm25_var) THEN pm25_var
    ELSE IF \E e \in 1..Len(obs) : NamesPm25(obs[e][1])
         THEN obs[CHOOSE e \in 1..Len(obs) :
                      /\ NamesPm25(obs[e][1])
                      /\ \A d \in 1..(e - 1) : ~NamesPm25(obs[d][1])][1]
         ELSE None

Min(a, b) == IF a < b THEN a ELSE b

\* The body of "for station in data['STATION']" raises in float().
StationRaises(station) ==
    /\ HasKey(station.OBSERVATIONS, KeyDateTime)
    /\ PositionSource(station.OBSERVATIONS) = "static"
    /\ (FloatRaises(station.LATITUDE) \/ FloatRaises(station.LONGITUDE))

\* A loop that keeps a reading whose value is null, to compare with the
\* code's.
KeepReading_AnyValue(pm, i, lats, lons) == i <= Len(lats) /\ i <= Len(lons)

\* if pm is not None and i < len(lats) and i < len(lons)
KeepReading(pm, i, lats, lons) ==
    pm # None /\ i <= Len(lats) /\ i <= Len(lons)

\* The rows one station adds to all_rows.
StationRows(station, pm25_var) ==
    LET obs == station.OBSERVATIONS
    IN  IF ~HasKey(obs, KeyDateTime) THEN <<>>
        ELSE IF PmKey(obs, pm25_var) = None THEN <<>>
        ELSE LET times == Get(obs, KeyDateTime)
                 vals  == Get(obs, PmKey(obs, pm25_var))
                 lats  == Coordinates(station, 1)
                 lons  == Coordinates(station, 2)
                 kept  == SelectSeq([i \in 1..Min(Len(times), Len(vals)) |-> i],
                                    LAMBDA i : KeepReading(vals[i], i, lats, lons))
             IN  [r \in 1..Len(kept) |->
                     [train_id |-> station.STID,
                      time     |-> times[kept[r]],
                      lat      |-> lats[kept[r]],
                      lon      |-> lons[kept[r]],
                      pm25     |-> vals[kept[r]]]]

RECURSIVE AllRows(_, _)
AllRows(stations, pm25_var) ==
    IF stations = <<>> THEN <<>>
    ELSE StationRows(Head(stations), pm25_var) \o AllRows(Tail(stations), pm25_var)

\* A dropna that looks at lat only, to compare with the code's.
DropNa_LatOnly(rows) == SelectSeq(rows, LAMBDA r : r.lat # None)

\* df.dropna(subset=['lat', 'lon'])
DropNa(rows) == SelectSeq(rows, LAMBDA r : r.lat # None /\ r.lon # None)

\* def process_trax_data(data, pm25_var): whether it raises, the rows it
\* collected and, when it wrote the file, the frame it wrote
process_trax_data(data, pm25_var) ==
    LET stations == IF data.has_station THEN data.STATION ELSE <<>>
        all_rows == AllRows(stations, pm25_var)
    IN  IF \E s \in 1..Len(stations) : StationRaises(stations[s])
        THEN [raises |-> TRUE, all_rows |-> <<>>, written |-> None]
        ELSE [raises |-> FALSE, all_rows |-> all_rows,
              written |-> IF all_rows # <<>> THEN Some(DropNa(all_rows)) ELSE None]

\* One timeseries request of fetch_trax_history, vars None when not given.
TraxRequest(var_name) == [url |-> "stations/timeseries", vars |-> var_name]

\* requests.get, raise_for_status and response.json(): data, or an exception
TraxData(raises, has_station, stations, has_summary) ==
    [raises |-> raises, has_station |-> has_station, STATION |-> stations,
     has_summary |-> has_summary]

\* 'STATION' in data and len(data['STATION']) > 0
HasStations(data) == data.has_station /\ Len(data.STATION) > 0

\* pm_keys_found of step 1: the keys of every station that look like PM2.5
RECURSIVE PmKeysFound(_)
PmKeysFound(stations) ==
    IF stations = <<>> THEN <<>>
    ELSE SelectSeq(Keys(Head(stations).OBSERVATIONS), LooksLikePm)
         \o PmKeysFound(Tail(stations))

\* A caller that takes a call that raised for a finished one, to compare
\* with the code's.
AfterProcess_ReturnsAlways(raised, otherwise) == "trax_done"

\* process_trax_data(...) followed by return, inside try: the return is
\* reached unless the call raised, and then the except clause goes on.
AfterProcess(raised, otherwise) == IF raised THEN otherwise ELSE "trax_done"

\* What a call of process_trax_data leaves behind.
CallRecord(data, pm25_var) ==
    [pm25_var  |-> pm25_var,
     raises    |-> process_trax_data(data, pm25_var).raises,
     collected |-> Len(process_trax_data(data, pm25_var).all_rows)]

Written(data, pm25_var) ==
    IF process_trax_data(data, pm25_var).written = None THEN <<>>
    ELSE <<process_trax_data(data, pm25_var).written[2]>>

Printed(data, pm25_var) ==
    IF process_trax_data(data, pm25_var).raises THEN {"trax_error"}
    ELSE IF process_trax_data(data, pm25_var).written = None
         THEN {"no_valid_data_rows_found"}
         ELSE {"success_saved_gps_points"}

\* check_available_variables(): the metadata request and, without a station
\* in the answer, the search request; every exception is caught.
CheckAvailableVariables ==
    /\ pc = "trax_check"
    /\ trace' = Append(trace, "check_available_variables")
    /\ \E outcome \in {"raises", "stations", "no_stations"} :
           /\ trax_requests' =
                  trax_requests \o <<[url |-> "stations/metadata", vars |-> None]>>
                  \o (IF outcome = "no_stations"
                      THEN <<[url |-> "stations/search", vars |-> None]>> ELSE <<>>)
           /\ console' = IF outcome = "raises"
                         THEN console \cup {"error_checking_variables"} ELSE console
    /\ pc' = "trax_step1"
    /\ UNCHANGED <<script, outputs, var_idx, process_calls, trax_csv>>
    /\ UNCHANGED <<censusVars, sensorVars, ingestVars, renderVars, epaVars, fetchVars>>

\* fetch_trax_history, step 1: the request without a variable filter
TraxStep1(data) ==
    /\ pc = "trax_step1"
    /\ trace' = Append(trace, "fetch_trax_history")
    /\ trax_requests' = Append(trax_requests, TraxRequest(None))
    /\ var_idx' = 1
    /\ IF data.raises
       THEN /\ console' = console \cup {"error_checking_available_data"}
            /\ pc' = "trax_step2"
            /\ UNCHANGED <<process_calls, trax_csv>>
       ELSE IF HasStations(data) /\ PmKeysFound(data.STATION) # <<>>
       THEN \E e \in 1..Len(PmKeysFound(data.STATION)) :
                LET pm_var == PmKeysFound(data.STATION)[e]
                IN  /\ process_calls' = Append(process_calls, CallRecord(data, pm_var))
                    /\ trax_csv' = trax_csv \o Written(data, pm_var)
                    /\ console' = console \cup Printed(data, pm_var)
                    /\ pc' = AfterProcess(process_trax_data(data, pm_var).raises,
                                          "trax_step2")
       ELSE /\ pc' = "trax_step2"
            /\ UNCHANGED <<console, process_calls, trax_csv>>
    /\ outputs' = outputs \cup (IF trax_csv' # trax_csv
                                 THEN {"trax_mobile_data.csv"} ELSE {})
    /\ UNCHANGED script
    /\ UNCHANGED <<censusVars, sensorVars, ingestVars, renderVars, epaVars, fetchVars>>

\* fetch_trax_history, step 2: one iteration of "for var_name in pm25_vars"
TraxTryVariable(data) ==
    /\ pc = "trax_step2"
    /\ var_idx <= Len(pm25_vars)
    /\ trax_requests' = Append(trax_requests, TraxRequest(pm25_vars[var_idx]))
    /\ var_idx' = var_idx + 1
    /\ IF data.raises
       THEN /\ console' = console \cup {"trax_error"}
            /\ pc' = pc
            /\ UNCHANGED <<process_calls, trax_csv>>
       ELSE IF HasStations(data)
       THEN LET var_name == pm25_vars[var_idx]
            IN  /\ process_calls' = Append(process_calls, CallRecord(data, var_name))
                /\ trax_csv' = trax_csv \o Written(data, var_name)
                /\ console' = console \cup Printed(data, var_name)
                /\ pc' = AfterProcess(process_trax_data(data, var_name).raises, pc)
       ELSE /\ pc' = pc
            /\ UNCHANGED <<console, process_calls, trax_csv>>
    /\ outputs' = outputs \cup (IF trax_csv' # trax_csv
                                 THEN {"trax_mobile_data.csv"} ELSE {})
    /\ UNCHANGED <<script, trace>>
    /\ UNCHANGED <<censusVars, sensorVars, ingestVars, renderVars, epaVars, fetchVars>>

\* After the loop: "Could not find valid PM2.5 variable."
TraxGiveUp ==
    /\ pc = "trax_step2"
    /\ var_idx > Len(pm25_vars)
    /\ console' = console \cup {"could_not_find_valid_pm25_variable"}
    /\ pc' = "trax_done"
    /\ UNCHANGED <<script, trace, outputs>>
    /\ UNCHANGED traxVars
    /\ UNCHANGED <<censusVars, sensorVars, ingestVars, renderVars, epaVars, fetchVars>>

\* The stations of the answers below.
Obs(times, position, pm_key, vals) ==
    <<<<KeyDateTime, times>>, <<KeyPosition, position>>, <<pm_key, vals>>>>

Station(stid, lat, lon, obs) ==
    [STID |-> stid, NAME |-> "TRAX", LATITUDE |-> lat, LONGITUDE |-> lon,
     OBSERVATIONS |-> obs]

\* Four times and three positions: a full one, one without a longitude and
\* a null.
Moving ==
    Station("TRX01", Num(407), Num(-1119),
            Obs(<<1, 2, 3, 4>>,
                <<Pair(Num(407), Num(-1118)), Pair(Num(408), None), None>>,
                pm25_vars[1], <<Num(120), Num(80), Num(90), Num(70)>>))

\* Separate arrays, a key found by its name only; no row survives dropna.
Arrays ==
    Station("TRX02", Num(407), Num(-1119),
            <<<<KeyDateTime, <<1, 2>>>>,
              <<KeyLatitude, <<Num(407), None>>>>,
              <<KeyLongitude, <<Num(-1119), Num(-1119)>>>>,
              <<<<"p", "m", "2", "5", "_", "1">>, <<None, Num(50)>>>>>>)

\* No position in the observations and a null LATITUDE.
NullLatitude ==
    Station("TRX03", None, Num(-1119),
            <<<<KeyDateTime, <<1>>>>, <<pm25_vars[1], <<Num(100)>>>>>>)

\* No position in the observations, no LATITUDE and no LONGITUDE.
Static ==
    Station("TRX03", Absent, Absent,
            <<<<KeyDateTime, <<1, 2>>>>, <<pm25_vars[2], <<Num(100), None>>>>>>)

NoTimeline == Station("TRX01", Num(407), Num(-1119), <<>>)

NoPm ==
    Station("TRX02", Num(407), Num(-1119),
            <<<<KeyDateTime, <<1>>>>, <<<<"o", "z", "o", "n", "e">>, <<Num(30)>>>>>>)

TraxResponses ==
    { TraxData(TRUE, FALSE, <<>>, FALSE),
      TraxData(FALSE, FALSE, <<>>, TRUE),
      TraxData(FALSE, TRUE, <<>>, FALSE),
      TraxData(FALSE, TRUE, <<Moving>>, TRUE),
      TraxData(FALSE, TRUE, <<Arrays>>, TRUE),
      TraxData(FALSE, TRUE, <<NullLatitude>>, TRUE),
      TraxData(FALSE, TRUE, <<Static>>, TRUE),
      TraxData(FALSE, TRUE, <<NoTimeline, NoPm>>, TRUE),
      TraxData(FALSE, TRUE, <<Moving, NullLatitude>>, TRUE),
      TraxData(FALSE, TRUE, <<Static, Arrays, Moving>>, TRUE) }

InitTrax ==
    /\ script = "trax"
    /\ pc = "trax_check"
    /\ trace = <<>>
    /\ console = {}
    /\ outputs = {}
    /\ shp = [exists |-> FALSE, tracts |-> <<>>, box |-> CountyBox]
    /\ acs = [exists |-> FALSE, rows |-> <<>>]
    /\ NoCensus
    /\ sensor_csv = [exists |-> FALSE, rows |-> <<>>]
    /\ sensor_lookup = <<>>
    /\ purpleair_dir = <<>>
    /\ NoIngest
    /\ NoRender
    /\ NoEpaRun
    /\ NoFetchRun

NextTrax ==
    \/ CheckAvailableVariables
    \/ \E data \in TraxResponses : TraxStep1(data)
    \/ \E data \in TraxResponses : TraxTryVariable(data)
    \/ TraxGiveUp

SpecTrax == InitTrax /\ [][NextTrax]_vars

-----------------------------------------------------------------------------
(* calculate_statistics.py 83-135: the sensor loop of the statistics script *)

\* A loop body without the outlier filter, to compare with the code's.
StatisticsOutcome_KeepsOutliers(f, lookup) ==
    LET parts == Split(f.name)
    IN  IF parts = <<>> \/ ~IntParses(parts[1]) THEN "continue"
        ELSE IF IntOf(parts[1]) \notin DOMAIN lookup THEN "continue"
        ELSE IF ~f.readable THEN "continue"
        ELSE IF PM_COLUMN \notin f.columns THEN "continue"
        ELSE IF f.dtype # "float" THEN "continue"
        ELSE IF IsNaN(SeriesMean(f.pm)) THEN "continue"
        ELSE "append"

\* The loop body (calculate_statistics.py 100-132): every early exit is a
\* bare continue, and the bare except: continues as well; the correction and
\* the threshold are written as literals, 0.778, 2.65 and 500.
StatisticsOutcome(f, lookup) ==
    LET parts == Split(f.name)
    IN  IF parts = <<>> \/ ~IntParses(parts[1]) THEN "continue"
        ELSE IF IntOf(parts[1]) \notin DOMAIN lookup THEN "continue"
        ELSE IF ~f.readable THEN "continue"
        ELSE IF PM_COLUMN \notin f.columns THEN "continue"
        ELSE IF f.dtype # "float" THEN "continue"
        ELSE IF IsNaN(SeriesMean(f.pm)) THEN "continue"
        ELSE IF 778 * SeriesMean(f.pm)[2] + 2650000 > 500000000 THEN "continue"
        ELSE "append"

\* The dict appended to air_data (calculate_statistics.py 125-130).
StatisticsReading(f, lookup) ==
    LET sensor_id == IntOf(Split(f.name)[1])
    IN  [lat       |-> lookup[sensor_id][1],
         lon       |-> lookup[sensor_id][2],
         pm25      |-> 778 * SeriesMean(f.pm)[2] + 2650000,
         sensor_id |-> sensor_id]

\* csv_files = glob.glob(...); air_data = []
StatisticsGlob ==
    /\ pc = "statistics_glob"
    /\ trace' = Append(trace, "statistics")
    /\ csv_files' = purpleair_dir
    /\ air_data' = <<>>
    /\ idx' = 1
    /\ console' = console \cup {"sensor_network_summary"}
    /\ pc' = "statistics_loop"
    /\ UNCHANGED <<script, outputs, purpleair_dir, total_files, date_range_info,
                   processed, skipped, outliers, air_df>>
    /\ UNCHANGED <<censusVars, sensorVars, renderVars, epaVars, fetchVars>>
    /\ UNCHANGED traxVars

\* one iteration of: for csv_file in csv_files
StatisticsFile ==
    /\ pc = "statistics_loop"
    /\ idx <= Len(csv_files)
    /\ LET f == csv_files[idx]
       IN  air_data' = IF StatisticsOutcome(f, sensor_lookup) = "append"
                       THEN Append(air_data, StatisticsReading(f, sensor_lookup))
                       ELSE air_data
    /\ idx' = idx + 1
    /\ UNCHANGED <<script, pc, trace, console, outputs>>
    /\ UNCHANGED <<purpleair_dir, csv_files, total_files, date_range_info,
                   processed, skipped, outliers, air_df>>
    /\ UNCHANGED <<censusVars, sensorVars, renderVars, epaVars, fetchVars>>
    /\ UNCHANGED traxVars

\* air_df = pd.DataFrame(air_data)
StatisticsFrame ==
    /\ pc = "statistics_loop"
    /\ idx > Len(csv_files)
    /\ air_df' = air_data
    /\ console' = console \cup {"valid_sensors_processed"}
    /\ pc' = "statistics_done"
    /\ UNCHANGED <<script, trace, outputs>>
    /\ UNCHANGED <<purpleair_dir, csv_files, total_files, date_range_info, idx,
                   air_data, processed, skipped, outliers>>
    /\ UNCHANGED <<censusVars, sensorVars, renderVars, epaVars, fetchVars>>
    /\ UNCHANGED traxVars

\* The three copies of the loop over the same directories and sensor lists.
\* The statistics script starts at its glob (line 93), its lookup built from
\* a sensor list whose ids are all present.
InitCopies ==
    /\ script \in {"main", "analysis", "statistics"}
    /\ trace = <<>>
    /\ console = {}
    /\ outputs = {}
    /\ shp = [exists |-> FALSE, tracts |-> <<>>, box |-> CountyBox]
    /\ acs = [exists |-> FALSE, rows |-> <<>>]
    /\ NoCensus
    /\ sensor_csv \in SensorLists
    /\ IF script = "statistics"
       THEN /\ ~LookupRaises(sensor_csv)
            /\ sensor_lookup = BuildLookup(sensor_csv.rows, <<>>)
            /\ pc = "statistics_glob"
       ELSE /\ sensor_lookup = <<>>
            /\ pc = "load_sensors"
    /\ purpleair_dir \in SeqsUpTo(SensorFiles, MaxFiles)
    /\ NoIngest
    /\ NoRender
    /\ NoEpaRun
    /\ NoFetchRun

NextCopies ==
    \/ LoadSensorLocations
    \/ IngestBegin
    \/ IngestFile
    \/ IngestReturn
    \/ StatisticsGlob
    \/ StatisticsFile
    \/ StatisticsFrame

SpecCopies == InitCopies /\ [][NextCopies]_vars

-----------------------------------------------------------------------------
(* The claims *)

\* The sensor id a file name carries, when its first token is an integer.
HasSensorId(f) == Split(f.name) # <<>> /\ IntParses(Split(f.name)[1])
SensorIdOf(f) == IntOf(Split(f.name)[1])

\* The files the loop of process_purpleair_data has visited so far.
Visited == SubSeq(csv_files, 1, idx - 1)

\* C1: every reading process_purpleair_data keeps comes from a visited file
\* of that sensor, its pm25 is 0.778 * (mean of the file's pm2.5_cf_1 column)
\* + 2.65, and pm25 <= 500; a mean of 40.0 gives 33.77.
C1_CorrectedAndPlausible ==
    \A k \in 1..Len(air_data) :
        /\ air_data[k].pm25 <= 500000000
        /\ \E j \in 1..Len(Visited) :
               LET f == Visited[j]
                   mean == SeriesMean(f.pm)
               IN  /\ HasSensorId(f)
                   /\ SensorIdOf(f) = air_data[k].sensor_id
                   /\ ~IsNaN(mean)
                   /\ air_data[k].pm25 = 778 * mean[2] + 2650000
                   /\ (mean[2] = 40000 => air_data[k].pm25 = 33770000)

\* C1 witness: ingestion has returned a reading of 33.77 made from a file
\* whose mean is 40.0.
C1_Witness ==
    /\ pc = "check_empty"
    /\ \E k \in 1..Len(air_df), j \in 1..Len(csv_files) :
           /\ air_df[k].pm25 = 33770000
           /\ SeriesMean(csv_files[j].pm) = Num(40000)

\* The tracts merge_geo_and_census has returned.
Merged == pc \in {"load_sensors", "process_epa"}

\* C2: after merge_geo_and_census every tract of the result has
\* population-in-band > 0 and is not both above the 95th-percentile area and
\* below 10 in population; a tract with population 0 is never in the result.
C2_KeptTractsInhabitedNotOutliers ==
    Merged =>
        \A i \in 1..Len(merged_gdf) :
            LET pop == merged_gdf[i].cols[FilterColumn(script)]
            IN  /\ pop > 0
                /\ ~(pop < 10 /\ ~IsNaN(area_95th)
                              /\ 20 * merged_gdf[i].area > area_95th[2])
                /\ \A c \in 1..Len(census_df) :
                       census_df[c].cols[FilterColumn(script)] = 0
                           => census_df[c].GEOID # merged_gdf[i].GEOID

\* C2 witness: tract 49035110100 is in the shapefile and in the census table
\* with population 0, and the merge has kept another tract but not this one.
C2_Witness ==
    /\ Merged
    /\ Len(merged_gdf) = 1
    /\ \E g \in 1..Len(gdf), c \in 1..Len(census_df) :
           /\ gdf[g].GEOID = <<"49035", "110100">>
           /\ census_df[c].GEOID = <<"49035", "110100">>
           /\ census_df[c].cols[FilterColumn(script)] = 0
    /\ merged_gdf[1].GEOID # <<"49035", "110100">>

\* The band a legend line's printed range puts a value in: "<12" is below
\* 12, "12-35" is from 12 to 35, ">35" is above 35.
InLegendLine(line, v) ==
    CASE line.range = "<" -> v < line.hi
      [] line.range = "-" -> line.lo <= v /\ v <= line.hi
      [] line.range = ">" -> v > line.lo

ColourBand(c) ==
    CASE c = "green" -> "Good" [] c = "orange" -> "Moderate" [] c = "red" -> "Unhealthy"

StatusBand(st) == IF st = "Unhealthy for Sensitive Groups" THEN "Unhealthy" ELSE st

\* The band the claim gives a value.
ClaimedBand(v) ==
    IF v < 12000000 THEN "Good" ELSE IF v < 35000000 THEN "Moderate" ELSE "Unhealthy"

\* C3: for every reading, the box-plot category, the marker colour, the popup
\* status and the legend line that covers the value all denote the bucket
\* <12 Good, [12,35) Moderate, >=35 Unhealthy.
C3_BandsAgreeEverywhere ==
    pc = "done" =>
        \A i \in 1..Len(markers) :
            LET v == air_df[i].pm25
                b == ClaimedBand(v)
            IN  /\ plots.aqi_category[i] = b
                /\ ColourBand(markers[i].fill_color) = b
                /\ StatusBand(markers[i].status) = b
                /\ \A l \in 1..Len(legend.lines) :
                       InLegendLine(legend.lines[l], v) <=> legend.lines[l].name = b

\* The sensor ids of the files that meet the claim's four conditions.
C5_Qualifies(f) ==
    /\ HasSensorId(f)
    /\ SensorIdOf(f) \in DOMAIN sensor_lookup
    /\ f.readable /\ PM_COLUMN \in f.columns
    /\ f.dtype = "float" /\ ~IsNaN(SeriesMean(f.pm))
    /\ 778 * SeriesMean(f.pm)[2] + 2650000 <= 500000000

\* C4: the loop visits the files one by one and counts each once: while it
\* runs processed + skipped + outliers is the number of files visited,
\* whatever happened to them; on return all files were visited, and
\* processed + skipped = number of files in main.py, processed + skipped +
\* outliers = number of files in purpleair_analysis.py.
C4_EveryFileCountedOnce ==
    /\ pc = "ingest_loop" =>
           /\ idx - 1 <= total_files
           /\ processed + skipped + outliers = idx - 1
           /\ processed = Len(air_data)
    /\ pc = "check_empty" =>
           /\ total_files = Len(purpleair_dir)
           /\ idx = total_files + 1
           /\ processed = Len(air_df)
           /\ script = "main" => processed + skipped = total_files /\ outliers = 0
           /\ script = "analysis" => processed + skipped + outliers = total_files

\* C4 witness: two files, the first raised (its id is no integer), the second
\* was processed, and the function has returned.
C4_Witness ==
    /\ pc = "check_empty"
    /\ total_files = 2
    /\ ~HasSensorId(csv_files[1])
    /\ processed = 1
    /\ skipped = 1
    /\ air_df[1].sensor_id = SensorIdOf(csv_files[2])

RECURSIVE C5_QualifyingIds(_)
C5_QualifyingIds(files) ==
    IF files = <<>> THEN <<>>
    ELSE (IF C5_Qualifies(Head(files)) THEN <<SensorIdOf(Head(files))>> ELSE <<>>)
         \o C5_QualifyingIds(Tail(files))

\* C5: a file contributes exactly one reading if and only if its first token
\* is an integer id of the lookup, it has a pm2.5_cf_1 column, the column's
\* mean is a number and the corrected value is <= 500: the kept readings are,
\* in order, one per visited file that meets the four conditions.
C5_OneReadingIffQualifies ==
    [k \in 1..Len(air_data) |-> air_data[k].sensor_id] = C5_QualifyingIds(Visited)

\* C5 witness: of two visited files one meets the conditions and one, whose
\* corrected value is above 500, does not; one reading was kept.
C5_Witness ==
    /\ pc = "check_empty"
    /\ Len(csv_files) = 2
    /\ C5_Qualifies(csv_files[2])
    /\ SeriesMean(csv_files[1].pm) = Num(639300)
    /\ ~C5_Qualifies(csv_files[1])
    /\ Len(air_df) = 1

\* C6: every kept reading's sensor_id is a key of the lookup, its (lat, lon)
\* is the pair stored for that id, and lat and lon are not missing.
C6_ValidLookupCoordinate ==
    \A k \in 1..Len(air_data) :
        /\ air_data[k].sensor_id \in DOMAIN sensor_lookup
        /\ <<air_data[k].lat, air_data[k].lon>> = sensor_lookup[air_data[k].sensor_id]
        /\ ~IsNaN(air_data[k].lat)
        /\ ~IsNaN(air_data[k].lon)

LaterStages == {"plots", "interpolate", "static_render", "interactive_render"}

StagesRun == {trace[i] : i \in 1..Len(trace)}

\* C7: when ingestion yields no reading main() has returned with the error
\* message: no later stage has run and no output file is written.
C7_HaltsWithoutOutputs ==
    (pc \in {"returned", "plots", "heatmap", "static", "interactive", "done"}
         /\ Len(air_df) = 0)
        => /\ pc = "returned"
           /\ "error_no_valid_sensor_data" \in console
           /\ StagesRun \cap LaterStages = {}
           /\ outputs = {}
           /\ plots = <<>> /\ grid = <<>> /\ markers = <<>> /\ legend = <<>>

\* C7 witness: the directory held files, all were rejected, main() returned.
C7_Witness ==
    /\ pc = "returned"
    /\ total_files = 2
    /\ skipped + outliers = 2
    /\ outputs = {}

C8_Order == <<"load_shapefile", "process_census", "merge", "ingest",
              "interpolate", "static_render", "interactive_render">>

IsPrefix(a, b) == Len(a) <= Len(b) /\ a = SubSeq(b, 1, Len(a))

\* C8: the stages run at most once each and in the order load shapefile,
\* process census, merge, ingest, interpolate, static render, interactive
\* render: what has run is always a beginning of that list, and while the
\* ingestion loop runs no other stage has started after it.
C8_StrictLinearOrder ==
    /\ IsPrefix(SelectSeq(trace, LAMBDA st : st \in {C8_Order[i] : i \in 1..7}),
                C8_Order)
    /\ \A i, j \in 1..Len(trace) : i # j => trace[i] # trace[j]
    /\ pc = "ingest_loop" => trace[Len(trace)] = "ingest"

\* C8 witness: a complete run of main.py, all seven stages in order.
C8_Witness ==
    /\ pc = "done"
    /\ script = "main"
    /\ SelectSeq(trace, LAMBDA st : st \in {C8_Order[i] : i \in 1..7}) = C8_Order

\* A date_local cell of the CSV that lies in the inversion window, the days
\* 1 to 30 of January 2025.
C9_InWindow(row) ==
    /\ row.date_local[1] = "date"
    /\ row.date_local[2] = 2025
    /\ row.date_local[3] = 1
    /\ row.date_local[4] \in 1..30

\* The record of the frame that a row of the CSV becomes.
C9_FromRow(record, row) ==
    /\ \A c \in EpaColumns \ {"date_local"} : record[c] = row[c]
    /\ row.date_local[1] = "date" =>
           record.date_local = <<row.date_local[2], row.date_local[3],
                                 row.date_local[4]>>

C9_SameRecords(df, rows) ==
    /\ Len(df) = Len(rows)
    /\ \A i \in 1..Len(rows) : C9_FromRow(df[i], rows[i])

C9_Returned ==
    pc \in {"check_epa_sites", "returned", "epa_plots", "epa_static_65plus",
            "epa_static_85plus", "epa_interactive_65plus",
            "epa_interactive_85plus", "done"}

\* C9: once process_epa_data has returned: if no record of the CSV lies in
\* the window, the warning was printed and the records aggregated are all
\* records of the CSV; if one does, the records aggregated are exactly the
\* in-window ones and no warning was printed; a non-empty CSV gives a
\* non-empty set of records, and every site row comes from one of them.
C9_FallbackToAllRecords ==
    C9_Returned =>
        LET inside == SelectSeq(epa_csv.rows, C9_InWindow)
        IN  /\ inside = <<>> =>
                   /\ "warning_no_data_for_date_range" \in console
                   /\ C9_SameRecords(df_filtered, epa_csv.rows)
            /\ inside # <<>> =>
                   /\ "warning_no_data_for_date_range" \notin console
                   /\ C9_SameRecords(df_filtered, inside)
            /\ epa_csv.rows # <<>> => df_filtered # <<>>
            /\ \A g \in 1..Len(epa_sites) : \E i \in 1..Len(df_filtered) :
                   /\ df_filtered[i].site_number = epa_sites[g].site_number
                   /\ df_filtered[i].latitude = epa_sites[g].latitude

\* C9 witness: two records, both outside the window (one the day after it),
\* the warning was printed, both are aggregated and main() has gone on.
C9_Witness ==
    /\ pc = "epa_plots"
    /\ Len(epa_csv.rows) = 2
    /\ epa_csv.rows[1].date_local = Date(2025, 1, 31)
    /\ \A i \in 1..2 : ~C9_InWindow(epa_csv.rows[i])
    /\ "warning_no_data_for_date_range" \in console
    /\ Len(df_filtered) = 2

\* The credentials main() loads from the environment.
C10_Loaded ==
    <<IF env.EPA_EMAIL = None THEN "x" ELSE env.EPA_EMAIL[2],
      IF env.EPA_KEY = None THEN "x" ELSE env.EPA_KEY[2]>>

\* C10: when verify_credentials has returned False the warning was printed
\* and main() is at the call of fetch_pm25_data or has made it with the
\* email and key it loaded, which every request of the fetch carries.
C10_FetchesAfterFailedVerify ==
    verified = <<FALSE>> =>
        /\ "warning_could_not_verify" \in console
        /\ <<email, key>> = C10_Loaded
        /\ \/ pc = "fetch"
           \/ /\ fetch_args = C10_Loaded
              /\ pc \in {"fetch_loop", "crashed", "returned", "save", "done"}
              /\ \A i \in 2..Len(requests) :
                     /\ requests[i].endpoint = "dailyData/byCounty"
                     /\ requests[i].email = C10_Loaded[1]
                     /\ requests[i].key = C10_Loaded[2]

\* C10 witness: verification failed, and the fetch has sent both county
\* requests with the credentials of the environment and has got data.
C10_Witness ==
    /\ verified = <<FALSE>>
    /\ env.EPA_EMAIL = Str("me@example.com")
    /\ fetch_args = <<"me@example.com", "tealram42">>
    /\ Len(requests) = 3
    /\ pc = "done"

\* The requests fetch_pm25_data has sent: those after the one of
\* verify_credentials.
C11_FetchRequests == SubSeq(requests, 2, Len(requests))

C11_FetchReturned ==
    fetch_args # None /\ pc \in {"save", "done", "returned"}

\* C11: fetch_pm25_data sends one request per county code, in list order:
\* request i is for COUNTY_CODES[i] and none is sent twice; a status other
\* than 200 is reported and the loop goes on, so that when the function has
\* returned every county was requested exactly once.
C11_OneRequestPerCounty ==
    fetch_args # None =>
        /\ Len(C11_FetchRequests) <= Len(COUNTY_CODES)
        /\ \A i \in 1..Len(C11_FetchRequests) :
               /\ C11_FetchRequests[i].endpoint = "dailyData/byCounty"
               /\ C11_FetchRequests[i].county = COUNTY_CODES[i]
        /\ \A i \in 1..Len(responses) :
               responses[i].status_code # 200 =>
                   /\ "api_request_failed" \in console
                   /\ pc = "fetch_loop" => county_idx = Len(responses) + 1
        /\ pc = "fetch_loop" => Len(C11_FetchRequests) = county_idx - 1
        /\ C11_FetchReturned =>
               /\ Len(C11_FetchRequests) = Len(COUNTY_CODES)
               /\ Len(responses) = Len(COUNTY_CODES)

\* C11 witness: the first county answered 500, the second was still
\* requested and gave data, and the function has returned.
C11_Witness ==
    /\ C11_FetchReturned
    /\ Len(responses) = 2
    /\ responses[1].status_code = 500
    /\ responses[2].status_code = 200
    /\ Len(C11_FetchRequests) = 2
    /\ C11_FetchRequests[2].county = "011"
    /\ all_data # <<>>

\* The census key of a GEO_ID: the parts after the prefix '1400000US'.
C12_Normalized(geo_id) ==
    IF geo_id # <<>> /\ geo_id[1] = "1400000US" THEN Tail(geo_id) ELSE geo_id

C12_ShapefileIds == {gdf[g].GEOID : g \in 1..Len(gdf)}

C12_CensusIds == {C12_Normalized(acs.rows[c].GEO_ID) : c \in 1..Len(acs.rows)}

\* C12: the census key is GEO_ID without its prefix, and every merged
\* tract's GEOID is the GEOID of a shapefile tract and the key of a census
\* row: a tract of only one source is never in the result.
C12_InnerJoinOnGeoid ==
    /\ pc \notin {"load_shapefile", "process_census", "crashed"} =>
           \A c \in 1..Len(census_df) :
               census_df[c].GEOID = C12_Normalized(acs.rows[c].GEO_ID)
    /\ Merged =>
           \A i \in 1..Len(merged_gdf) :
               /\ merged_gdf[i].GEOID \in C12_ShapefileIds
               /\ merged_gdf[i].GEOID \in C12_CensusIds
               /\ \E g \in 1..Len(shp.tracts) :
                      shp.tracts[g].GEOID = merged_gdf[i].GEOID

\* C12 witness: the merge kept one tract; another tract is only in the
\* shapefile.
C12_Witness ==
    /\ Merged
    /\ Len(merged_gdf) = 1
    /\ merged_gdf[1].GEOID \in C12_CensusIds
    /\ \E g \in 1..Len(gdf) : gdf[g].GEOID \notin C12_CensusIds

\* to_numeric(errors='coerce').fillna(0) of one entry, as the claim states
\* it: a number counts, anything else is 0.
C13_Counted(entry) == IF entry[1] = "num" THEN entry[2] ELSE 0

C13_Sum80(row) ==
    C13_Counted(row.B01001_024E) + C13_Counted(row.B01001_025E)
        + C13_Counted(row.B01001_048E) + C13_Counted(row.B01001_049E)

\* The divisor: total_pop, or 1 when it is 0 or not a number.
C13_Divisor(row) ==
    IF C13_Counted(row.B01001_001E) = 0 THEN 1 ELSE C13_Counted(row.B01001_001E)

\* C13: in main.py, for every row of the census table, pop_80_plus is the
\* sum of the four columns with every non-numeric or missing entry counted
\* as 0, and pop_80_plus_pct (in hundredths of a percent, rounded down) is
\* pop_80_plus * 100 / total_pop with a total of 0 replaced by 1.
C13_SumAndPercentage ==
    (script = "main" /\ pc \notin {"load_shapefile", "process_census", "crashed"}) =>
        /\ Len(census_df) = Len(acs.rows)
        /\ \A c \in 1..Len(census_df) :
               LET row == acs.rows[c]
                   pop == census_df[c].cols["pop_80_plus"]
                   pct == census_df[c].cols["pop_80_plus_pct"]
               IN  /\ pop = C13_Sum80(row)
                   /\ pct * C13_Divisor(row) <= pop * 10000
                   /\ pop * 10000 < (pct + 1) * C13_Divisor(row)

\* C13 witness: a row with a text total, a text and a missing age entry and
\* 12 women aged 80-84: pop_80_plus is 12 and the percentage 1200.
C13_Witness ==
    /\ script = "main"
    /\ pc = "merge"
    /\ \E c \in 1..Len(census_df) :
           /\ acs.rows[c].B01001_001E = Text
           /\ acs.rows[c].B01001_025E = Text
           /\ census_df[c].cols["pop_80_plus"] = 12
           /\ census_df[c].cols["pop_80_plus_pct"] = 120000
    /\ \E c \in 1..Len(census_df) :
           /\ acs.rows[c].B01001_001E = Num(4000)
           /\ census_df[c].cols["pop_80_plus"] = 25
           /\ census_df[c].cols["pop_80_plus_pct"] = 62

\* C14: every map of the EPA pipeline is drawn with tracts whose population
\* in the map's own band is positive: pop_65_plus > 0 on the 65+ maps and
\* pop_85_plus > 0 on the 85+ maps.
C14_MapsShowInhabitedBand ==
    \A m \in 1..Len(epa_maps) :
        \A t \in 1..Len(epa_maps[m].tracts) :
            epa_maps[m].tracts[t].cols[
                IF epa_maps[m].age_group = "65plus"
                THEN "pop_65_plus" ELSE "pop_85_plus"] > 0

\* The tracts left after the zero-population filter: the shapefile tracts
\* of the study counties paired with their census rows of positive
\* population, as a set.
C15_Candidates ==
    {<<gdf[g], census_df[c]>> : g \in 1..Len(gdf), c \in 1..Len(census_df)}

C15_Inhabited ==
    {p \in C15_Candidates :
        /\ p[1].GEOID = p[2].GEOID
        /\ p[2].cols[FilterColumn(script)] > 0}

\* Twenty times the 95th percentile of the areas of n tracts, n <= 3, by
\* linear interpolation at position 0.95 * (n - 1) of the sorted areas.
C15_Percentile(areas) ==
    LET n == Len(areas)
        lo == CHOOSE x \in {areas[i] : i \in 1..n} :
                  \A y \in {areas[i] : i \in 1..n} : x <= y
        hi == CHOOSE x \in {areas[i] : i \in 1..n} :
                  \A y \in {areas[i] : i \in 1..n} : x >= y
        mid == CHOOSE x \in {areas[i] : i \in 1..n} :
                  /\ Cardinality({i \in 1..n : areas[i] < x}) <= 1
                  /\ Cardinality({i \in 1..n : areas[i] > x}) <= 1
    IN  CASE n = 1 -> 20 * lo
          [] n = 2 -> 20 * lo + 19 * (hi - lo)
          [] n = 3 -> 20 * mid + 18 * (hi - mid)

RECURSIVE C15_Reverse(_)
C15_Reverse(s) ==
    IF s = <<>> THEN <<>> ELSE Append(C15_Reverse(Tail(s)), Head(s))

C15_AsSet(s) == {s[i] : i \in 1..Len(s)}

\* C15: the threshold is the 95th percentile of the areas of the tracts
\* left after the zero-population filter; a tract of those is dropped
\* exactly when its own population is below 10 and its own area is above
\* that threshold, so a tract at the threshold or with population 10 is
\* kept, and the tracts kept are the same when both inputs come in the
\* reverse order.
C15_IndependentPredicates ==
    Merged =>
        LET inhabited == Inhabited(InnerJoin(gdf, census_df), FilterColumn(script))
            kept == {merged_gdf[i].GEOID : i \in 1..Len(merged_gdf)}
        IN  /\ Cardinality(C15_Inhabited) = Len(inhabited)
            /\ inhabited # <<>> =>
                   area_95th =
                       Num(C15_Percentile([i \in 1..Len(inhabited) |-> inhabited[i].area]))
            /\ \A p \in C15_Inhabited :
                   LET pop == p[2].cols[FilterColumn(script)]
                   IN  /\ p[1].GEOID \in kept <=>
                              ~(pop < 10 /\ 20 * p[1].area > area_95th[2])
                       /\ (20 * p[1].area = area_95th[2] \/ pop = 10) =>
                              p[1].GEOID \in kept
            /\ C15_AsSet(MergeResult(C15_Reverse(gdf), C15_Reverse(census_df), script))
                   = C15_AsSet(merged_gdf)

\* C15 witness: two tracts of equal area are left after the zero filter, so
\* that both are at the threshold; one has a population of 4, and both are
\* kept.
C15_Witness ==
    /\ Merged
    /\ Len(merged_gdf) = 2
    /\ 20 * merged_gdf[1].area = area_95th[2]
    /\ 20 * merged_gdf[2].area = area_95th[2]
    /\ \E i \in 1..2 : merged_gdf[i].cols[FilterColumn(script)] = 4

\* The cells of a grid, <<row, col>>.
C16_Cells(g) == (1..g.resolution) \X (1..g.resolution)

\* The point of a cell, multiplied by resolution - 1 as the axes are.
C16_At(g, cell) == <<grid_x(g)[cell[2]], grid_y(g)[cell[1]]>>

\* A cell lies in the convex hull of the sensor points: in the plane the hull
\* is the union of the triangles over any three of the points.
C16_InHull(g, cell) ==
    LET k == g.resolution - 1
        p == [i \in 1..Len(g.points) |-> <<k * g.points[i][1], k * g.points[i][2]>>]
    IN  \E a, b, c \in 1..Len(p) :
            /\ Cross(p[a], p[b], p[c]) # 0
            /\ InSimplex(C16_At(g, cell), p[a], p[b], p[c])

\* C16: the grid create_pm25_heatmap returns has resolution values on each
\* axis, running from the minimum to the maximum of the bounding box, and
\* every cell outside the convex hull of the sensor points is NaN, not 0 or
\* any other number; the static renderer is given that very grid, whose
\* cells outside the hull are still NaN.
C16_GridSpansBoxNaNOutsideHull ==
    (script = "main" /\ grid # <<>> /\ grid.bounds # NaNBounds) =>
        LET k == grid.resolution - 1
        IN  /\ Len(grid_x(grid)) = grid.resolution
            /\ Len(grid_y(grid)) = grid.resolution
            /\ Len(grid.points) = Len(air_df)
            /\ grid_x(grid)[1] = k * shp.box[1]
            /\ grid_x(grid)[grid.resolution] = k * shp.box[3]
            /\ grid_y(grid)[1] = k * shp.box[2]
            /\ grid_y(grid)[grid.resolution] = k * shp.box[4]
            /\ \A i \in 1..k : /\ grid_x(grid)[i] < grid_x(grid)[i + 1]
                                /\ grid_y(grid)[i] < grid_y(grid)[i + 1]
            /\ \A cell \in C16_Cells(grid) :
                   ~C16_InHull(grid, cell) => grid_pm25(grid, cell[1], cell[2]) = NaN
            /\ pc \in {"interactive", "done"} =>
                   /\ image.data = grid
                   /\ \A cell \in C16_Cells(image.data) :
                          ~C16_InHull(grid, cell) =>
                              grid_pm25(image.data, cell[1], cell[2]) = NaN

\* C16 witness: a grid with a cell outside the hull and a cell inside it, the
\* one NaN and the other a number, after the static map was drawn.
C16_Witness ==
    /\ script = "main"
    /\ pc = "interactive"
    /\ grid # <<>>
    /\ grid.bounds # NaNBounds
    /\ grid.resolution = 3
    /\ image.data = grid
    /\ \E cell \in C16_Cells(grid) :
           ~C16_InHull(grid, cell) /\ IsNaN(grid_pm25(grid, cell[1], cell[2]))
    /\ \E cell \in C16_Cells(grid) :
           C16_InHull(grid, cell) /\ ~IsNaN(grid_pm25(grid, cell[1], cell[2]))

\* The colour of the band of a value: below 12, from 12 to below 35, 35 and up.
C17_BandColour(v) ==
    IF v < 12000000 THEN "green" ELSE IF v < 35000000 THEN "orange" ELSE "red"

RECURSIVE C19_Tagged(_)
C19_Tagged(i) ==
    IF i > Len(responses) THEN <<>>
    ELSE LET data == IF responses[i].status_code = 200 /\ responses[i].has_data
                     THEN responses[i].Data ELSE <<>>
             name == COUNTY_NAMES[COUNTY_CODES[i]]
         IN  [r \in 1..Len(data) |->
                 [c \in DOMAIN data[r] \cup {"county_name"} |->
                     IF c = "county_name" THEN name ELSE data[r][c]]]
             \o C19_Tagged(i + 1)

\* C19: once fetch_pm25_data has returned, its result is None exactly when
\* no county gave a record; otherwise it holds the records of all counties
\* in county order, each with its county_name, and a Header of status
\* 'Success' whose rows is the number of those records.
C19_ConcatenatedOrNone ==
    C11_FetchReturned =>
        /\ json_data = None <=> C19_Tagged(1) = <<>>
        /\ json_data # None =>
               /\ json_data[2].Data = C19_Tagged(1)
               /\ \A r \in 1..Len(json_data[2].Data) :
                      json_data[2].Data[r].county_name \in
                          {COUNTY_NAMES[c] : c \in DOMAIN COUNTY_NAMES}
               /\ json_data[2].Header =
                      <<[status |-> "Success", rows |-> Len(C19_Tagged(1))]>>

\* C19 witness: both counties gave records, one and two, and the result
\* holds the three of them, the first county's first.
C19_Witness ==
    /\ C11_FetchReturned
    /\ json_data # None
    /\ Len(json_data[2].Data) = 3
    /\ json_data[2].Header[1].rows = 3
    /\ json_data[2].Data[1].county_name = COUNTY_NAMES[COUNTY_CODES[1]]
    /\ json_data[2].Data[3].county_name = COUNTY_NAMES[COUNTY_CODES[2]]
    /\ json_data[2].Data[1].county_name # json_data[2].Data[3].county_name

C20_Expected == {"county_name", "site_number", "local_site_name", "latitude",
                 "longitude", "date_local", "arithmetic_mean"}

\* The records process_and_save_data was given.
C20_Data == IF json_data = None THEN <<>> ELSE json_data[2].Data

\* The columns of the frame of the records, and the expected ones among them.
C20_Columns == UNION {DOMAIN C20_Data[i] : i \in 1..Len(C20_Data)}

C20_Present == C20_Columns \cap C20_Expected

\* The column of the records a column of the CSV holds.
C20_SourceOf(c) == IF c = "pm25_value" THEN "arithmetic_mean" ELSE c

\* The CSV holds one row per record, and in each column the record's value,
\* or NaN where the record has none.
C20_RowsKept(columns) ==
    /\ Len(saved[2].rows) = Len(C20_Data)
    /\ \A i \in 1..Len(C20_Data) :
           /\ DOMAIN saved[2].rows[i] = columns
           /\ \A c \in columns :
                  saved[2].rows[i][c] =
                      IF C20_SourceOf(c) \in DOMAIN C20_Data[i]
                      THEN C20_Data[i][C20_SourceOf(c)] ELSE NaN

\* C20: process_and_save_data returns None and writes no file for an input
\* that is empty or has no Data record; otherwise it writes one CSV, with
\* the expected columns that are present and no other, arithmetic_mean
\* under the name pm25_value, or with all columns as they are when no
\* expected column is present.
C20_SavesExpectedColumns ==
    pc = "done" =>
        /\ C20_Data = <<>> => saved = None /\ outputs = {}
        /\ C20_Data # <<>> =>
               /\ saved # None
               /\ outputs = {"epa_utah_data.csv"}
               /\ IF C20_Present = {}
                  THEN /\ saved[2].columns = C20_Columns
                       /\ C20_RowsKept(C20_Columns)
                  ELSE /\ saved[2].columns =
                              (C20_Present \ {"arithmetic_mean"}) \cup
                              (IF "arithmetic_mean" \in C20_Present
                               THEN {"pm25_value"} ELSE {})
                       /\ C20_RowsKept(saved[2].columns)

\* C20 witness: two records with all expected columns and one more; the CSV
\* has the seven expected columns, pm25_value among them, and two rows.
C20_Witness ==
    /\ pc = "done"
    /\ Len(C20_Data) = 2
    /\ C20_Present = C20_Expected
    /\ "state_code" \in C20_Columns
    /\ saved # None
    /\ Cardinality(saved[2].columns) = 7
    /\ "pm25_value" \in saved[2].columns
    /\ saved[2].rows[2].pm25_value = 400
    /\ outputs = {"epa_utah_data.csv"}

\* The site numbers of the filtered records, and the filtered records of one.
C21_Stations == {df_filtered[i].site_number : i \in 1..Len(df_filtered)}

C21_RecordsOf(number) == SelectSeq(df_filtered, LAMBDA r : r.site_number = number)

\* process_epa_data has returned.
C21_Processed ==
    pc # "crashed" /\ "process_epa" \in {trace[i] : i \in 1..Len(trace)}

\* C21: what process_epa_data returns has exactly one row for every site
\* number of the filtered records and no other row, and the row's pm25_value
\* is the mean of the pm25_value of all filtered records of that station.
C21_OneRowPerStation ==
    C21_Processed =>
        /\ \A g \in 1..Len(epa_sites) : epa_sites[g].site_number \in C21_Stations
        /\ \A number \in C21_Stations :
               /\ Cardinality({g \in 1..Len(epa_sites) :
                                  epa_sites[g].site_number = number}) = 1
               /\ \A g \in 1..Len(epa_sites) :
                      epa_sites[g].site_number = number =>
                          epa_sites[g].pm25_value =
                              SeriesMean([i \in 1..Len(C21_RecordsOf(number)) |->
                                             C21_RecordsOf(number)[i].pm25_value])

\* process_purpleair_data has passed the lines that set the date range.
C22_RangeSet == pc \in {"ingest_loop", "check_empty", "returned", "plots",
                        "heatmap", "static", "interactive", "done"}

\* The tokens of the first enumerated file name, none without a file.
C22_FirstTokens == IF csv_files = <<>> THEN <<>> ELSE Split(csv_files[1].name)

\* The date range is what the first file name says.
C22_FromFirstName ==
    C22_RangeSet =>
        IF Len(C22_FirstTokens) >= 4
        THEN /\ date_range_info.start_date = C22_FirstTokens[2]
             /\ date_range_info.end_date = C22_FirstTokens[3]
             /\ date_range_info.interval = C22_FirstTokens[4]
        ELSE /\ date_range_info.start_date = None
             /\ date_range_info.end_date = None
             /\ date_range_info.interval = <<"6", "0", "-", "M", "i", "n", "u", "t", "e">>

\* A step of the per-file loop, or any later step, leaves the range alone.
C22_LoopKeepsRange == C22_RangeSet => date_range_info' = date_range_info

\* C22: the date range comes from the first enumerated file name only: its
\* 2nd, 3rd and 4th token when it has at least four tokens, None, None and
\* '60-Minute' otherwise or without a file; it is set before the loop and no
\* step of the loop changes it, whether the first file is kept or skipped.
C22_DateRangeFromFirstFile == []C22_FromFirstName /\ [][C22_LoopKeepsRange]_vars

\* C22 witness: the loop has skipped the first file, whose name gave the
\* range, and gone on to a second file with a name of fewer tokens.
C22_Witness ==
    /\ pc = "ingest_loop"
    /\ idx = 3
    /\ Len(csv_files) = 2
    /\ processed = 1
    /\ skipped = 1
    /\ FileOutcome(csv_files[1], sensor_lookup) # "kept"
    /\ Len(Split(csv_files[1].name)) >= 4
    /\ Len(Split(csv_files[2].name)) < 4
    /\ date_range_info.start_date = <<"J", "1">>
    /\ date_range_info.interval = <<"1", "h">>

\* The calls of process_trax_data that ended without an exception and with
\* at least one reading collected.
C23_Collecting ==
    {c \in 1..Len(process_calls) :
        ~process_calls[c].raises /\ process_calls[c].collected > 0}

\* C23: every row written to trax_mobile_data.csv has a pm25, a lat and a
\* lon that are not missing; the file is written once for every call of
\* process_trax_data that collected a reading and for no other, and a call
\* that collected none prints the failure message.
C23_WrittenRowsComplete ==
    /\ \A w \in 1..Len(trax_csv) : \A r \in 1..Len(trax_csv[w]) :
           /\ trax_csv[w][r].pm25 # None
           /\ trax_csv[w][r].lat # None
           /\ trax_csv[w][r].lon # None
    /\ Len(trax_csv) = Cardinality(C23_Collecting)
    /\ ("trax_mobile_data.csv" \in outputs) <=> (trax_csv # <<>>)
    /\ (\E c \in 1..Len(process_calls) :
            ~process_calls[c].raises /\ process_calls[c].collected = 0)
           => "no_valid_data_rows_found" \in console

\* C23 witness: a call collected five readings, three of them without a
\* latitude or a longitude, and the file holds the two others.
C23_Witness ==
    /\ pc = "trax_done"
    /\ Len(process_calls) = 1
    /\ process_calls[1].collected = 5
    /\ Len(trax_csv) = 1
    /\ Len(trax_csv[1]) = 2
    /\ trax_csv[1][1].lat = Num(0)
    /\ trax_csv[1][2].pm25 = Num(120)

\* C24: in one run of fetch_trax_history process_trax_data is called at
\* most once and the file is written at most once; once a response has been
\* handed to process_trax_data no further request is sent.
C24_ProcessCalledAtMostOnce ==
    /\ Len(process_calls) <= 1
    /\ Len(trax_csv) <= 1
    /\ process_calls # <<>> =>
           /\ pc = "trax_done"
           /\ \/ trax_requests[Len(trax_requests)].vars = None
              \/ trax_requests[Len(trax_requests)].vars = process_calls[1].pm25_var

\* The (lat, lon, pm25, sensor_id) tuple of a reading.
C25_Tuple(r) == <<r.lat, r.lon, r.pm25, r.sensor_id>>

\* The files of the directory that meet the conditions for being kept: a set
\* of positions whose size, and whose files, no reordering changes.
C25_Kept == {i \in 1..Len(purpleair_dir) : C5_Qualifies(purpleair_dir[i])}

\* How many kept files of the directory give the tuple t.
C25_FilesGiving(t) ==
    Cardinality({i \in C25_Kept :
                    C25_Tuple(Reading(purpleair_dir[i], sensor_lookup)) = t})

\* How many rows of air_df are the tuple t.
C25_RowsGiving(t) ==
    Cardinality({k \in 1..Len(air_df) : C25_Tuple(air_df[k]) = t})

\* C25: what process_purpleair_data returns is fixed by which files the
\* directory holds and by the sensor lookup, not by the order of the files:
\* every tuple is kept as many times as there are usable files that give it,
\* processed is the number of usable files and the other files are counted
\* in skipped (or outliers), so two orderings of the same files give the
\* same tuples and counts.
C25_KeptSetIgnoresOrder ==
    pc = "check_empty" =>
        /\ \A t \in {C25_Tuple(air_df[k]) : k \in 1..Len(air_df)} \cup
                     {C25_Tuple(Reading(purpleair_dir[i], sensor_lookup)) : i \in C25_Kept} :
               C25_RowsGiving(t) = C25_FilesGiving(t)
        /\ processed = Cardinality(C25_Kept)
        /\ skipped + outliers = Len(purpleair_dir) - Cardinality(C25_Kept)
        /\ outliers = IF script = "main" THEN 0
                      ELSE Cardinality({i \in 1..Len(purpleair_dir) :
                               FileOutcome(purpleair_dir[i], sensor_lookup) = "outlier"})

\* C25 witness: a file that cannot be used comes first and a usable one
\* second; the usable one is kept as it would be in the other order.
C25_Witness ==
    /\ pc = "check_empty"
    /\ Len(purpleair_dir) = 2
    /\ C25_Kept = {2}
    /\ Len(air_df) = 1
    /\ C25_Tuple(air_df[1]) = C25_Tuple(Reading(purpleair_dir[2], sensor_lookup))
    /\ processed = 1

\* The readings main.py's loop body keeps from the files, in file order.
RECURSIVE C26_Readings(_, _)
C26_Readings(files, lookup) ==
    IF files = <<>> THEN <<>>
    ELSE (IF FileOutcome(Head(files), lookup) = "kept"
          THEN <<Reading(Head(files), lookup)>> ELSE <<>>)
         \o C26_Readings(Tail(files), lookup)

\* The files a loop has gone through.
C26_Visited == SubSeq(csv_files, 1, idx - 1)

\* C26: the three copies of the sensor loop agree. Over the same files in
\* the same order with the same lookup, each of main.py,
\* purpleair_analysis.py and calculate_statistics.py has collected, after
\* any number of files, the same sequence of readings; and the files
\* main.py counts in skipped are those purpleair_analysis.py counts in
\* skipped or in outliers.
C26_CopiesAgree ==
    pc \in {"ingest_loop", "check_empty", "statistics_loop", "statistics_done"} =>
        /\ air_data = C26_Readings(C26_Visited, sensor_lookup)
        /\ script = "main" =>
              /\ outliers = 0
              /\ skipped = Len(C26_Visited) - Len(air_data)
        /\ script = "analysis" =>
              /\ skipped + outliers = Len(C26_Visited) - Len(air_data)
              /\ outliers = Cardinality({i \in 1..Len(C26_Visited) :
                                FileOutcome(C26_Visited[i], sensor_lookup) = "outlier"})
        /\ pc \in {"check_empty", "statistics_done"} =>
              /\ C26_Visited = purpleair_dir
              /\ air_df = air_data

\* C26 witness: the statistics script has gone through an outlier file and
\* a usable file and kept the reading the other two copies keep.
C26_Witness ==
    /\ script = "statistics"
    /\ pc = "statistics_done"
    /\ Len(purpleair_dir) = 2
    /\ FileOutcome(purpleair_dir[1], sensor_lookup) = "outlier"
    /\ FileOutcome(purpleair_dir[2], sensor_lookup) = "kept"
    /\ air_df = <<Reading(purpleair_dir[2], sensor_lookup)>>

\* The sum of the three band counts of a table.
C27_Sum(t) == t.good + t.moderate + t.unhealthy

\* The rows of the analysis plot whose aqi_category is c.
C27_Labelled(c) == {i \in 1..Len(air_df) : plots.aqi_category[i] = c}

\* C27: the three bands partition the kept readings. In the table of the
\* analysis plot the counts of Good, Moderate and Unhealthy are the numbers
\* of readings get_aqi_category puts in each, and they add up to
\* total_sensors = len(air_df); the three counts of the interactive map's
\* summary add up to the number of sensors as well.
C27_BandsPartitionReadings ==
    /\ plots # <<>> =>
          /\ C27_Sum(plots.table) = Len(air_df)
          /\ plots.table.total = Len(air_df)
          /\ plots.table.good = Cardinality(C27_Labelled("Good"))
          /\ plots.table.moderate = Cardinality(C27_Labelled("Moderate"))
          /\ plots.table.unhealthy = Cardinality(C27_Labelled("Unhealthy"))
    /\ summary # <<>> =>
          /\ C27_Sum(summary) = Len(air_df)
          /\ C27_Sum(summary) = legend.sensors

\* C27 witness: three sensors, one just under 12, one at exactly 12 and one
\* at exactly 35, counted once each in the table and in the map's summary.
C27_Witness ==
    /\ pc = "done"
    /\ {air_df[i].pm25 : i \in 1..Len(air_df)} = {11999999, 12000000, 35000000}
    /\ plots # <<>> /\ summary # <<>>
    /\ plots.table.good = 1 /\ plots.table.moderate = 1 /\ plots.table.unhealthy = 1
    /\ summary.good = 1 /\ summary.moderate = 1 /\ summary.unhealthy = 1

\* C28: create_data_analysis_plots divides the three counts by
\* total_sensors = len(air_df). main() calls it only after the empty check,
\* so whenever the pipeline is about to draw the plots, or has drawn them,
\* air_df has at least one reading and the divisor is not zero.
C28_PlotsNeverDivideByZero ==
    /\ pc = "plots" => Len(air_df) >= 1
    /\ plots # <<>> => plots.table.total >= 1
    /\ "plots" \in {trace[i] : i \in 1..Len(trace)} => Len(air_df) >= 1

\* C28 witness: a run of main.py that skipped a file, kept others and drew
\* the analysis plots over the kept readings.
C28_Witness ==
    /\ script = "main"
    /\ plots # <<>>
    /\ skipped >= 1
    /\ processed = Len(air_df)
    /\ plots.table.total = processed
    /\ processed >= 1

=============================================================================
